---- MODULE Spec2Model ----
(***************************************************************************)
(* A model of the Krun API test-case execution engine: the recursive step  *)
(* interpreter (autotest_step_engine.py), the case runner that persists a  *)
(* run (autotest_step_crud.py), the execution context's variable pools,    *)
(* and the Celery worker's event-loop pool (async_or_sync_convert.py,      *)
(* celery_worker.py, celery_base.py).                                      *)
(***************************************************************************)
EXTENDS Integers, Sequences, FiniteSets, TLC

VARIABLES
    steps,              \* execute_case(steps=...): the root steps handed to the engine
    stack,              \* the chain of running execute() calls, execute_case at the bottom
    step_cycle_index,   \* StepExecutionContext.step_cycle_index
    current_step_code,  \* StepExecutionContext._current_step_code
    pending_details,    \* StepExecutionContext.pending_details (deferred mode)
    pc,                 \* position of execute_single_case
    statistics,         \* the statistics dict returned by execute_case
    db,                 \* committed rows: reports, details, the case row
    tx,                 \* the open transaction's working copy of db
    result_data,        \* what execute_single_case returns
    session_variables,  \* StepExecutionContext.session_variables
    defined_variables,  \* StepExecutionContext.defined_variables
    writes,             \* the items handed to update_variables(scope="session_variables")
    read,               \* the last get_variable call and what it gave
    worker,             \* module and class state of one Celery worker process
    task,               \* the task the worker process is handling
    due,                \* check_task_expired: the task asked about, the time, the answer
    tasks,              \* the AutoTestApiTaskInfo table, by id
    task_ops,           \* task CRUD requests between their read and their save
    task_log,           \* per task: which CRUD requests have completed
    scanned,            \* the last get_scheduled_tasks call and the rows it returned
    cases,              \* the AutoTestApiCaseInfo table, by id
    step_rows,          \* the AutoTestApiStepInfo table, by id
    case_ops,           \* case and step CRUD requests between their checks and their write
    updates,            \* per case: how many update_case requests have succeeded
    batch,              \* one batch_execute_cases call: its arguments, locals and return value
    loader,             \* one get_by_case_id call: its build_step_tree calls and counters
    orm_init,           \* init_tortoise_orm coroutines on the pool loop, the init lock, the flag
    save_faults,        \* how many _save_step_detail calls of the run are still going to fail
    logs                \* StepExecutionContext.logs: the log lines, by step code

engineVars == <<steps, stack, step_cycle_index, current_step_code, pending_details>>
runnerVars == <<pc, statistics, db, tx, result_data>>
ctxVars == <<session_variables, defined_variables, writes, read>>
workerVars == <<worker, task>>
taskVars == <<tasks, task_ops, task_log, scanned>>
caseVars == <<cases, step_rows, case_ops, updates>>
moreVars == <<loader, orm_init, save_faults, logs>>
appVars == <<due, taskVars, caseVars, batch, moreVars>>
vars == <<steps, stack, step_cycle_index, current_step_code, pending_details,
          pc, statistics, db, tx, result_data,
          session_variables, defined_variables, writes, read, worker, task,
          due, tasks, task_ops, task_log, scanned,
          cases, step_rows, case_ops, updates, batch, loader, orm_init, save_faults, logs>>

None == "None"

\* dict.get(step_code) on a missing key: no cycle recorded (Python None)
NoCycle == 0

\* hard iteration guard of COUNT and CONDITION loops
guard_limit == 100

(***************************************************************************)
(* Bounds of the explored inputs.                                          *)
(***************************************************************************)
MaxLoopMaximums == 2      \* loop_maximums of the small loops
OverGuard == 1            \* how far loop_maximums of the long loop exceeds guard_limit

(***************************************************************************)
(* Step dictionaries.                                                      *)
(***************************************************************************)
ValidStepTypes ==
    {"TCP", "HTTP", "PYTHON", "DATABASE", "LOOP", "IF", "WAIT", "QUOTE", "USER_VARIABLES"}

Step(code, no, type) ==
    [step_code |-> code, step_no |-> no, step_type |-> type,
     children |-> <<>>, quote_steps |-> <<>>, quote_case_id |-> 0,
     loop_mode |-> "", loop_maximums |-> 0, loop_on_error |-> "",
     loop_interval |-> 0, loop_timeout |-> 0, conditions |-> "",
     loop_iterable |-> [kind |-> "none", items |-> <<>>],
     loop_iter_idx |-> "", loop_iter_val |-> "",
     assert_validators |-> <<>>, extract_variables |-> <<>>,
     outcome |-> "ok"]

\* a step without children; outcome is what its request does in the environment:
\* "ok", "fail" (transport error or failed assertion) or "any" (either, per execution)
Leaf(code, no, outcome) == [Step(code, no, "HTTP") EXCEPT !.outcome = outcome]

LoopStep(code, no, mode, maximums, on_error, kids) ==
    [Step(code, no, "LOOP") EXCEPT !.loop_mode = mode, !.loop_maximums = maximums,
                                   !.loop_on_error = on_error, !.children = kids]

\* what parse_iterable_source makes of loop_iterable: nothing configured, a
\* list, a dict (its items as <<key, value>> pairs) or a plain string
NoIterable == [kind |-> "none", items |-> <<>>]
ListOf(items) == [kind |-> "list", items |-> items]
DictOf(items) == [kind |-> "dict", items |-> items]
StrOf == [kind |-> "str", items |-> <<>>]

IterLoopStep(code, no, mode, iterable, idx_name, val_name, kids) ==
    [LoopStep(code, no, mode, 0, "CONTINUE", kids)
        EXCEPT !.loop_iterable = iterable, !.loop_iter_idx = idx_name,
               !.loop_iter_val = val_name]

IfStep(code, no, cond, kids, quotes) ==
    [Step(code, no, "IF") EXCEPT !.conditions = cond, !.children = kids,
                                 !.quote_steps = quotes]

QuoteStep(code, no, case_id) == [Step(code, no, "QUOTE") EXCEPT !.quote_case_id = case_id]

(***************************************************************************)
(* Helpers of the interpreter.                                             *)
(***************************************************************************)
\* sorted(..., key=step_no): Python's sort is stable
InsertByStepNo(sorted, x) ==
    LET k == Cardinality({j \in 1..Len(sorted) : sorted[j].step_no <= x.step_no})
    IN  SubSeq(sorted, 1, k) \o <<x>> \o SubSeq(sorted, k + 1, Len(sorted))

RECURSIVE SortByStepNo(_)
SortByStepNo(s) ==
    IF s = <<>> THEN <<>>
    ELSE InsertByStepNo(SortByStepNo(SubSeq(s, 1, Len(s) - 1)), s[Len(s)])

\* children and quote_steps in stored order, without the sort
ChildrenUnsorted(step) == step.children \o step.quote_steps

\* BaseStepExecutor.children: children and quote_steps together, by step_no
ChildrenOf(step) == SortByStepNo(step.children \o step.quote_steps)

\* execute_case: ordered_root_steps
OrderedRootSteps(roots) == SortByStepNo(roots)

\* the frame of one execute() call once its prologue has run
NewFrame(step, num_cycles, previous) ==
    [step |-> step, pc |-> "body", num_cycles |-> num_cycles,
     previous_step_code |-> previous, success |-> TRUE, error |-> "", message |-> "",
     children |-> <<>>, todo |-> <<>>, idx |-> 1, child_results |-> <<>>,
     iteration |-> 0, waits |-> 0]

\* the bottom frame: execute_case iterating the ordered root steps
CaseFrame(roots) ==
    [NewFrame(Step("case", 0, "CASE"), NoCycle, None)
        EXCEPT !.pc = "children", !.todo = OrderedRootSteps(roots)]

Top == stack[Len(stack)]
SetTop(f) == [stack EXCEPT ![Len(stack)] = f]

\* StepExecutionResult as returned by execute()
ResultOf(f) ==
    [step_code |-> f.step.step_code, step_no |-> f.step.step_no,
     success |-> f.success, error |-> f.error, children |-> f.children]

\* index of the first failed result of a list, 0 when none failed
FirstFailed(results) ==
    IF \A i \in 1..Len(results) : results[i].success THEN 0
    ELSE CHOOSE i \in 1..Len(results) :
            /\ ~results[i].success
            /\ \A j \in 1..(i - 1) : results[j].success

\* the caller of execute() takes the child's result
Deliver(parent, res) ==
    IF parent.step.step_type \in {"LOOP", "IF"}
    THEN \* _execute_children: results.append(child_result)
         [parent EXCEPT !.child_results = Append(@, res), !.idx = @ + 1]
    ELSE IF parent.step.step_type = "QUOTE"
    THEN \* QuoteCaseStepExecutor: append_child, and a failed child fails the step
         [parent EXCEPT !.children = Append(@, res), !.idx = @ + 1,
                        !.success = @ /\ res.success]
    ELSE \* execute_case: results.append(result)
         [parent EXCEPT !.children = Append(@, res), !.idx = @ + 1]

\* _save_step_detail in deferred mode: the payload appended to pending_details
DetailOf(f) ==
    [step_code |-> f.step.step_code, num_cycles |-> f.num_cycles,
     step_state |-> f.success]

(***************************************************************************)
(* The assertions of an HTTP step.  A Python value is kept with its type:  *)
(* an int or a bool carries its number, a str its text.                    *)
(***************************************************************************)
NoneV == [type |-> "none", num |-> 0, text |-> ""]
IntV(n) == [type |-> "int", num |-> n, text |-> ""]
BoolV(b) == [type |-> "bool", num |-> IF b THEN 1 ELSE 0, text |-> ""]
StrV(t) == [type |-> "str", num |-> 0, text |-> t]

\* `not value`
Falsy(value) ==
    \/ value.type = "none"
    \/ value.type \in {"int", "bool"} /\ value.num = 0
    \/ value.type = "str" /\ value.text = ""

\* Python's ==: bool is a number, a str equals only a str, None only None
PyEquals(a, b) ==
    IF a.type = "none" \/ b.type = "none" THEN a.type = b.type
    ELSE IF a.type = "str" \/ b.type = "str" THEN a.type = b.type /\ a.text = b.text
    ELSE a.num = b.num

\* _normalize_value: digit strings become int, 'true'/'false' become bool
normalize_value(value) ==
    IF value.type # "str" THEN value
    ELSE IF value.text = "0" THEN IntV(0)
    ELSE IF value.text = "1" THEN IntV(1)
    ELSE IF value.text = "true" THEN BoolV(TRUE)
    ELSE IF value.text = "false" THEN BoolV(FALSE)
    ELSE value

type_aware_equals(actual, expected) ==
    \/ PyEquals(actual, expected)
    \/ PyEquals(normalize_value(actual), normalize_value(expected))

\* the operators of op_map modelled here: equal, not equal, not empty, empty
Operations == {"equals", "not_equals", "not_empty", "is_empty"}

compare_assertion(actual, operation, expected) ==
    IF operation = "equals" THEN type_aware_equals(actual, expected)
    ELSE IF operation = "not_equals" THEN ~type_aware_equals(actual, expected)
    ELSE IF operation = "not_empty" THEN actual.type # "none" /\ ~PyEquals(actual, StrV(""))
    ELSE actual.type = "none" \/ PyEquals(actual, StrV(""))

\* one entry of assert_validators; actual is what extract_from_source finds in
\* the response
Validator(operation, except_value, actual) ==
    [expr |-> "$.x", operation |-> operation, except_value |-> except_value,
     actual |-> actual]

\* run_validators: an entry without expr, operation or except_value is
\* skipped, the others are compared
RECURSIVE run_validators(_)
run_validators(assert_validators) ==
    IF assert_validators = <<>> THEN <<>>
    ELSE LET v == Head(assert_validators)
         IN  IF v.expr = "" \/ v.operation = "" \/ Falsy(v.except_value)
             THEN run_validators(Tail(assert_validators))
             ELSE <<[success |-> compare_assertion(v.actual, v.operation, v.except_value)]>>
                    \o run_validators(Tail(assert_validators))

\* extract_variables: one result per entry, in order.  An entry is "found",
\* fails inside extract_from_source ("no_match": StepExecutionError, which
\* the entry handler raises again, lines 2263-2264) or fails with another
\* exception ("bad_range": range missing, None.lower()), which is recorded
RECURSIVE extract_variables(_)
extract_variables(entries) ==
    IF entries = <<>> THEN [raised |-> FALSE, results |-> <<>>]
    ELSE IF Head(entries) = "no_match" THEN [raised |-> TRUE, results |-> <<>>]
    ELSE LET rest == extract_variables(Tail(entries))
         IN  [raised |-> rest.raised,
              results |-> IF rest.raised THEN <<>>
                          ELSE <<[success |-> Head(entries) = "found"]>> \o rest.results]

\* HttpStepExecutor._execute, 2140-2169: any failed result raises
AssertionsPass(step) ==
    LET results == run_validators(step.assert_validators)
    IN  \A i \in 1..Len(results) : results[i].success

\* what a leaf's _execute can do in the environment
LeafOutcomes(step) ==
    IF step.step_type \in {"TCP", "DATABASE"} THEN {FALSE}   \* NotImplementedError
    ELSE IF step.outcome = "ok"
    THEN {~extract_variables(step.extract_variables).raised /\ AssertionsPass(step)}
    ELSE IF step.outcome = "fail" THEN {FALSE}
    ELSE {TRUE, FALSE}

\* what compare() of the step's conditions can yield: "T" holds, "F" does not,
\* "X" depends on the variables of the moment, "E" cannot be evaluated
CondOutcomes(cond) ==
    IF cond = "T" THEN {"true"}
    ELSE IF cond = "F" THEN {"false"}
    ELSE IF cond = "X" THEN {"true", "false"}
    ELSE {"error"}

(***************************************************************************)
(* The step tree interpreter: one action per stretch of execute() between  *)
(* two calls into a child.                                                 *)
(***************************************************************************)
\* execute(), lines 871-872: the step becomes current, then "previous" is read
PreviousStepCode(step_code, current) == step_code

\* a caller creates the executor of its next step and enters execute()
Dispatch ==
    /\ pc = "engine"
    /\ Top.pc = "children"
    /\ Top.idx <= Len(Top.todo)
    /\ LET child == Top.todo[Top.idx] IN
        /\ child.step_type \in ValidStepTypes
        /\ stack' = Append(stack,
                [called_with |-> current_step_code] @@
                NewFrame(child, step_cycle_index[child.step_code],
                         PreviousStepCode(child.step_code, current_step_code)))
        /\ current_step_code' = child.step_code
    /\ UNCHANGED <<ctxVars, workerVars, appVars, steps, step_cycle_index, pending_details, runnerVars>>

\* a loop that ends at the first failure whatever loop_on_error says
LoopEndsOnFailure(f, raised) ==
    IF raised \/ FirstFailed(f.child_results) # 0
    THEN [f EXCEPT !.children = @ \o f.child_results, !.success = FALSE, !.pc = "finish"]
    ELSE [f EXCEPT !.children = @ \o f.child_results, !.pc = "post"]

\* a loop that notes a failure and goes on whatever loop_on_error says
LoopIgnoresFailure(f, raised) ==
    IF raised \/ FirstFailed(f.child_results) # 0
    THEN [f EXCEPT !.children = @ \o f.child_results, !.success = FALSE, !.pc = "post"]
    ELSE [f EXCEPT !.children = @ \o f.child_results, !.pc = "post"]

\* the loop's try/except around _execute_children (count loop 1125-1161,
\* condition loop 1450-1488); raised: _execute_children itself raised
LoopAfterChildren(f, raised) ==
    LET on == f.step.loop_on_error
        cr == f.child_results
        ff == FirstFailed(cr)
    IN  IF raised
        THEN IF on = "STOP" THEN [f EXCEPT !.success = FALSE, !.error = "stop", !.pc = "finish"]
             ELSE IF on = "BREAK" THEN [f EXCEPT !.success = FALSE, !.pc = "finish"]
             ELSE [f EXCEPT !.success = FALSE, !.pc = "post"]
        ELSE IF ff = 0 THEN [f EXCEPT !.children = @ \o cr, !.pc = "post"]
        ELSE IF on = "STOP"
             THEN [f EXCEPT !.children = @ \o SubSeq(cr, 1, ff), !.success = FALSE,
                            !.error = "stop", !.pc = "finish"]
        ELSE IF on = "BREAK"
             THEN [f EXCEPT !.children = @ \o SubSeq(cr, 1, ff), !.success = FALSE,
                            !.pc = "finish"]
        ELSE [f EXCEPT !.children = @ \o cr, !.success = FALSE, !.pc = "post"]

\* create_executor raises for a step whose step_type is no AutoTestStepType
CreateExecutorFails ==
    /\ pc = "engine"
    /\ Top.pc = "children"
    /\ Top.idx <= Len(Top.todo)
    /\ Top.todo[Top.idx].step_type \notin ValidStepTypes
    /\ \/ /\ Top.step.step_type = "CASE"
          \* execute_case has no handler: the error leaves the engine
          /\ stack' = SetTop([Top EXCEPT !.pc = "raised"])
          /\ pc' = "raised"
       \/ /\ Top.step.step_type = "LOOP"
          \* _execute_children's handler builds failed_result with
          \* AutoTestStepType(step_type), which raises again (line 1034)
          /\ stack' = SetTop(LoopAfterChildren(Top, TRUE))
          /\ pc' = pc
       \/ /\ Top.step.step_type = "IF"
          /\ stack' = SetTop([Top EXCEPT !.success = FALSE, !.error = "children",
                                         !.pc = "finish"])
          /\ pc' = pc
       \/ /\ Top.step.step_type = "QUOTE"
          /\ stack' = SetTop([Top EXCEPT !.success = FALSE, !.error = "create_executor",
                                         !.pc = "finish"])
          /\ pc' = pc
    /\ UNCHANGED <<ctxVars, workerVars, appVars, steps, step_cycle_index, current_step_code, pending_details,
                   statistics, db, tx, result_data>>

\* _execute of a step without children
(***************************************************************************)
(* StepExecutionContext.logs and the aggregation of a root step's log.     *)
(***************************************************************************)
\* the step codes of the scenarios
StepCodes == {"a", "b", "c", "d", "x", "L", "M", "I", "q1", "q2", "p1", "p2", "pbad"}

\* self.logs = {}: no step code has a line
NoLogs == [c \in StepCodes |-> <<>>]

\* log(message, step_code): one more line under step_code.  A line is told
\* apart by the step that wrote it and its position among that step's lines
log(lines, step_code) ==
    [lines EXCEPT ![step_code] = Append(@, <<step_code, Len(@) + 1>>)]

\* collect_child_step_nos: the step code of a result and of its descendants,
\* one entry per result
RECURSIVE collect_child_step_nos(_)
RECURSIVE ChildStepCodes(_)
collect_child_step_nos(result) ==
    <<result.step_code>> \o ChildStepCodes(result.children)

\* for child in children: step_codes.extend(collect_child_step_nos(child))
ChildStepCodes(children) ==
    IF children = <<>> THEN <<>>
    ELSE IF Len(children) = 1 THEN collect_child_step_nos(children[1])
    ELSE LET half == Len(children) \div 2
         IN  ChildStepCodes(SubSeq(children, 1, half))
                \o ChildStepCodes(SubSeq(children, half + 1, Len(children)))

\* the step codes in the order of sorted(): by code point, capitals first
SortedStepCodes ==
    <<"I", "L", "M", "a", "b", "c", "d", "p1", "p2", "pbad", "q1", "q2", "x">>

\* seq, n times over
Repeated(seq, n) ==
    [i \in 1..(n * Len(seq)) |-> seq[((i - 1) % Len(seq)) + 1]]

\* for step_code in sorted(child_step_codes): aggregated_logs.extend(logs[step_code]),
\* from the k-th code of the order on: a code is met once per entry it has in
\* child_step_codes
RECURSIVE aggregated_logs(_, _, _)
aggregated_logs(lines, child_step_codes, k) ==
    IF k > Len(SortedStepCodes) THEN <<>>
    ELSE LET step_code == SortedStepCodes[k]
             entries == Cardinality({i \in 1..Len(child_step_codes) :
                                        child_step_codes[i] = step_code})
         IN  Repeated(lines[step_code], entries)
                \o aggregated_logs(lines, child_step_codes, k + 1)

\* aggregate_root_step_logs(context, root_result, root_step_code)
aggregate_root_step_logs(lines, root_result, root_step_code) ==
    [lines EXCEPT ![root_step_code] =
        @ \o aggregated_logs(lines, ChildStepCodes(root_result.children), 1)]

\* the loop of _execute over the validator results: it counts a failed result
\* and raises as soon as the count is positive; the value is the count that the
\* error message reports (0: nothing raised)
RECURSIVE assert_failed_number(_)
assert_failed_number(validator_results) ==
    IF validator_results = <<>> THEN 0
    ELSE IF ~Head(validator_results).success THEN 1
    ELSE assert_failed_number(Tail(validator_results))

\* result.assert_validators of an HTTP step whose request succeeded: the
\* validators run after the extraction, when that did not raise
ResultValidators(step) ==
    IF step.step_type \in {"TCP", "DATABASE"} \/ step.outcome # "ok"
       \/ extract_variables(step.extract_variables).raised
    THEN <<>>
    ELSE run_validators(step.assert_validators)

LeafExecute ==
    /\ pc = "engine"
    /\ Top.pc = "body"
    /\ Top.step.step_type \notin {"LOOP", "IF", "QUOTE", "CASE"}
    /\ \E ok \in LeafOutcomes(Top.step) :
        stack' = SetTop([assert_validators |-> ResultValidators(Top.step),
                         assert_failed_number |->
                            assert_failed_number(ResultValidators(Top.step))] @@
                        [Top EXCEPT !.success = ok,
                                    !.error = IF ok THEN "" ELSE "exec",
                                    !.pc = "finish"])
    /\ logs' = log(logs, Top.step.step_code)
    /\ UNCHANGED <<ctxVars, workerVars, due, taskVars, caseVars, batch, loader, orm_init, save_faults,
                   steps, step_cycle_index, current_step_code, pending_details, runnerVars>>

\* the children run although the comparison is false
IfNotMetRunsChildren(f) ==
    [f EXCEPT !.message = "condition_not_met", !.todo = ChildrenOf(f.step), !.idx = 1,
              !.child_results = <<>>, !.pc = "children"]

\* lines 1646-1650: the comparison is false
IfNotMet(f) == [f EXCEPT !.success = TRUE, !.message = "condition_not_met", !.pc = "finish"]

\* ConditionStepExecutor._execute up to the call of _execute_children
IfExecute ==
    /\ pc = "engine"
    /\ Top.pc = "body"
    /\ Top.step.step_type = "IF"
    /\ \E c \in CondOutcomes(Top.step.conditions) :
        stack' = SetTop(
            IF c = "error"
            THEN [Top EXCEPT !.success = FALSE, !.error = "conditions", !.pc = "finish"]
            ELSE IF c = "false"
            THEN IfNotMet(Top)
            ELSE [Top EXCEPT !.message = "condition_met", !.todo = ChildrenOf(Top.step),
                             !.idx = 1, !.child_results = <<>>, !.pc = "children"])
    /\ UNCHANGED <<ctxVars, workerVars, appVars, steps, step_cycle_index, current_step_code, pending_details, runnerVars>>

\* ConditionStepExecutor._execute after _execute_children returned
IfChildrenDone ==
    /\ pc = "engine"
    /\ Top.pc = "children"
    /\ Top.step.step_type = "IF"
    /\ Top.idx > Len(Top.todo)
    /\ stack' = SetTop([Top EXCEPT !.children = @ \o Top.child_results,
                                   !.success = (FirstFailed(Top.child_results) = 0),
                                   !.pc = "finish"])
    /\ UNCHANGED <<ctxVars, workerVars, appVars, steps, step_cycle_index, current_step_code, pending_details, runnerVars>>

\* the stored public cases a QUOTE step can reference: the root steps that
\* get_by_case_id(quote_case_id) returns, <<>> for a case that is not stored
QuoteCaseSteps(case_id) ==
    IF case_id = 9 THEN <<Leaf("p2", 2, "ok"), Leaf("p1", 1, "any")>>
    ELSE IF case_id = 8 THEN <<Step("pbad", 1, "NOTYPE"), Leaf("p1", 2, "ok")>>
    ELSE <<>>

\* QuoteCaseStepExecutor._execute up to its loop over the quoted steps
QuoteExecute ==
    /\ pc = "engine"
    /\ Top.pc = "body"
    /\ Top.step.step_type = "QUOTE"
    /\ stack' = SetTop(
            IF Top.step.quote_case_id = 0
            THEN [Top EXCEPT !.success = FALSE, !.error = "quote_case_id", !.pc = "finish"]
            ELSE IF QuoteCaseSteps(Top.step.quote_case_id) = <<>>
            THEN [Top EXCEPT !.success = FALSE, !.error = "not_found", !.pc = "finish"]
            ELSE [Top EXCEPT !.todo = SortByStepNo(QuoteCaseSteps(Top.step.quote_case_id)),
                             !.idx = 1, !.pc = "children"])
    /\ UNCHANGED <<ctxVars, workerVars, appVars, steps, step_cycle_index, current_step_code, pending_details, runnerVars>>

\* QuoteCaseStepExecutor._execute after the last quoted step
QuoteChildrenDone ==
    /\ pc = "engine"
    /\ Top.pc = "children"
    /\ Top.step.step_type = "QUOTE"
    /\ Top.idx > Len(Top.todo)
    /\ stack' = SetTop([Top EXCEPT !.pc = "finish"])
    /\ UNCHANGED <<ctxVars, workerVars, appVars, steps, step_cycle_index, current_step_code, pending_details, runnerVars>>

\* LoopStepExecutor._execute: the checks before the first iteration
LoopBegin ==
    /\ pc = "engine"
    /\ Top.pc = "body"
    /\ Top.step.step_type = "LOOP"
    /\ LET st == Top.step
           bad == \/ st.loop_mode \notin {"COUNT", "CONDITION", "ITERABLE", "DICT"}
                  \/ (st.loop_mode \in {"ITERABLE", "DICT"} /\ st.loop_iterable.kind = "none")
                  \/ (st.loop_mode = "ITERABLE" /\ st.loop_iterable.kind = "str")
                  \/ (st.loop_mode = "DICT" /\ st.loop_iterable.kind # "dict")
                  \/ st.loop_on_error \notin {"CONTINUE", "BREAK", "STOP"}
                  \/ (st.loop_mode = "COUNT" /\ st.loop_maximums = 0)
                  \/ (st.loop_mode = "CONDITION" /\ st.conditions = "")
       IN stack' = SetTop(
            IF bad THEN [Top EXCEPT !.success = FALSE, !.error = "config", !.pc = "finish"]
            ELSE [Top EXCEPT !.pc = "iter"])
    /\ logs' = log(logs, Top.step.step_code)
    /\ UNCHANGED <<ctxVars, workerVars, due, taskVars, caseVars, batch, loader, orm_init, save_faults,
                   steps, step_cycle_index, current_step_code, pending_details, runnerVars>>

\* the loop records the iteration for itself and for its direct children
\* (count loop 1118-1124, condition loop 1442-1449)
RecordCycle(index, step, iteration) ==
    LET kids == {ChildrenOf(step)[i].step_code : i \in 1..Len(ChildrenOf(step))}
    IN  [c \in DOMAIN index |->
            IF c = step.step_code \/ c \in kids THEN iteration ELSE index[c]]

\* for iteration in range(1, loop_maximums + 1): the head of one iteration
CountIterBegin ==
    /\ pc = "engine"
    /\ Top.pc = "iter"
    /\ Top.step.loop_mode = "COUNT"
    /\ IF Top.iteration >= Top.step.loop_maximums
       THEN /\ stack' = SetTop([Top EXCEPT !.pc = "finish"])
            /\ UNCHANGED step_cycle_index
       ELSE /\ stack' = SetTop([Top EXCEPT !.iteration = @ + 1,
                                           !.todo = ChildrenOf(Top.step), !.idx = 1,
                                           !.child_results = <<>>, !.pc = "children"])
            /\ step_cycle_index' = RecordCycle(step_cycle_index, Top.step, Top.iteration + 1)
    /\ UNCHANGED <<ctxVars, workerVars, appVars, steps, current_step_code, pending_details, runnerVars>>

\* while should_continue: the head of one iteration, with the loop_timeout check
ConditionIterBegin ==
    /\ pc = "engine"
    /\ Top.pc = "iter"
    /\ Top.step.loop_mode = "CONDITION"
    /\ \E timed_out \in (IF Top.step.loop_timeout > 0 THEN BOOLEAN ELSE {FALSE}) :
        IF timed_out
        THEN /\ stack' = SetTop([Top EXCEPT !.iteration = @ + 1, !.pc = "finish"])
             /\ UNCHANGED step_cycle_index
        ELSE /\ stack' = SetTop([Top EXCEPT !.iteration = @ + 1,
                                            !.todo = ChildrenOf(Top.step), !.idx = 1,
                                            !.child_results = <<>>, !.pc = "children"])
             /\ step_cycle_index' = RecordCycle(step_cycle_index, Top.step, Top.iteration + 1)
    /\ UNCHANGED <<ctxVars, workerVars, appVars, steps, current_step_code, pending_details, runnerVars>>

\* _execute_children returned to the loop
LoopChildrenDone ==
    /\ pc = "engine"
    /\ Top.pc = "children"
    /\ Top.step.step_type = "LOOP"
    /\ Top.idx > Len(Top.todo)
    /\ stack' = SetTop(LoopAfterChildren(Top, FALSE))
    /\ UNCHANGED <<ctxVars, workerVars, appVars, steps, step_cycle_index, current_step_code, pending_details, runnerVars>>

\* context.sleep(loop_interval): seconds above 300 are rejected
SleepFails(seconds) == seconds > 300

\* the safety check that ends an iteration: if iteration >= guard_limit: raise
GuardLate(iteration) == iteration > guard_limit
GuardReached(iteration) == iteration >= guard_limit

\* count loop 1163-1172: the interval wait, then the guard
CountLoopPost ==
    /\ pc = "engine"
    /\ Top.pc = "post"
    /\ Top.step.loop_mode = "COUNT"
    /\ LET wait == Top.iteration < Top.step.loop_maximums /\ Top.step.loop_interval > 0
       IN stack' = SetTop(
            IF wait /\ SleepFails(Top.step.loop_interval)
            THEN [Top EXCEPT !.success = FALSE, !.error = "sleep", !.pc = "finish"]
            ELSE IF GuardReached(Top.iteration)
            THEN [Top EXCEPT !.waits = IF wait THEN @ + 1 ELSE @, !.success = FALSE,
                             !.error = "guard", !.pc = "finish"]
            ELSE [Top EXCEPT !.waits = IF wait THEN @ + 1 ELSE @, !.pc = "iter"])
    /\ UNCHANGED <<ctxVars, workerVars, appVars, steps, step_cycle_index, current_step_code, pending_details, runnerVars>>

\* condition loop 1490-1514: the condition, the guard, then the interval wait
ConditionLoopPost ==
    /\ pc = "engine"
    /\ Top.pc = "post"
    /\ Top.step.loop_mode = "CONDITION"
    /\ \E c \in CondOutcomes(Top.step.conditions) :
        stack' = SetTop(
            IF c = "false" THEN [Top EXCEPT !.pc = "finish"]
            ELSE IF c = "error"
            THEN [Top EXCEPT !.success = FALSE, !.error = "conditions", !.pc = "finish"]
            ELSE IF GuardReached(Top.iteration)
            THEN [Top EXCEPT !.success = FALSE, !.error = "guard", !.pc = "finish"]
            ELSE IF Top.step.loop_interval > 0 /\ SleepFails(Top.step.loop_interval)
            THEN [Top EXCEPT !.success = FALSE, !.error = "sleep", !.pc = "finish"]
            ELSE [Top EXCEPT !.waits = IF Top.step.loop_interval > 0 THEN @ + 1 ELSE @,
                             !.pc = "iter"])
    /\ UNCHANGED <<ctxVars, workerVars, appVars, steps, step_cycle_index, current_step_code, pending_details, runnerVars>>

\* _save_step_detail in deferred mode: the payload is appended, or building
\* it fails and StepExecutionError is raised
save_step_detail(details, f, fails) ==
    IF fails THEN [raised |-> TRUE, pending_details |-> details]
    ELSE [raised |-> FALSE, pending_details |-> Append(details, DetailOf(f))]

\* a finally block whose failed save marks the step as failed
ReturnedResultSaveError(f, save_raised) ==
    IF save_raised THEN [ResultOf(f) EXCEPT !.success = FALSE, !.error = "detail"]
    ELSE ResultOf(f)

\* what execute() returns: a raising _save_step_detail is logged only
ReturnedResult(f, save_raised) == ResultOf(f)

\* execute() that leaves without storing a payload
StepFinishNoDetail ==
    /\ pc = "engine"
    /\ Len(stack) > 1
    /\ Top.pc = "finish"
    /\ current_step_code' = Top.previous_step_code
    /\ stack' = [SubSeq(stack, 1, Len(stack) - 1)
                    EXCEPT ![Len(stack) - 1] = Deliver(stack[Len(stack) - 1], ResultOf(Top))]
    /\ UNCHANGED <<ctxVars, workerVars, appVars, steps, step_cycle_index, pending_details, runnerVars>>

\* the finally block of execute() and the return to the caller
StepFinish ==
    /\ pc = "engine"
    /\ Len(stack) > 1
    /\ Top.pc = "finish"
    /\ current_step_code' = Top.previous_step_code
    /\ \E fails \in {FALSE} \cup {save_faults > 0} :
        LET saved == save_step_detail(pending_details, Top, fails) IN
        /\ pending_details' = saved.pending_details
        /\ save_faults' = IF fails THEN save_faults - 1 ELSE save_faults
        /\ stack' = [SubSeq(stack, 1, Len(stack) - 1)
                        EXCEPT ![Len(stack) - 1] =
                            Deliver(stack[Len(stack) - 1], ReturnedResult(Top, saved.raised))]
        /\ logs' = IF Len(stack) = 2
                   THEN aggregate_root_step_logs(logs, ReturnedResult(Top, saved.raised),
                                                 Top.step.step_code)
                   ELSE logs
    /\ UNCHANGED <<ctxVars, workerVars, due, taskVars, caseVars, batch, loader, orm_init,
                   steps, step_cycle_index, runnerVars>>

(***************************************************************************)
(* execute_case after the root steps: the statistics and the payloads.     *)
(***************************************************************************)
RECURSIVE collect_all_results(_)
collect_all_results(results) ==
    IF results = <<>> THEN <<>>
    ELSE IF Len(results) = 1
    THEN <<results[1]>> \o collect_all_results(results[1].children)
    ELSE LET half == Len(results) \div 2
         IN  collect_all_results(SubSeq(results, 1, half))
                \o collect_all_results(SubSeq(results, half + 1, Len(results)))

\* unique_states that keeps the state of the first result of each step_code
UniqueStatesFirstWins(all) ==
    [c \in {all[i].step_code : i \in 1..Len(all)} |->
        all[CHOOSE i \in 1..Len(all) :
                /\ all[i].step_code = c
                /\ \A j \in 1..(i - 1) : all[j].step_code # c].success]

\* unique_states: one entry per step_code, False once any result of it failed
UniqueStates(all) ==
    [c \in {all[i].step_code : i \in 1..Len(all)} |->
        \A i \in 1..Len(all) : all[i].step_code = c => all[i].success]

\* pass_ratio is kept in hundredths of a percent: round(pass_ratio, 2) * 100,
\* rounded to the nearest hundredth
Statistics(results) ==
    LET us == UniqueStates(collect_all_results(results))
        total == Cardinality(DOMAIN us)
        passed == Cardinality({c \in DOMAIN us : us[c]})
    IN  [total_steps |-> total, success_steps |-> passed,
         failed_steps |-> total - passed,
         pass_ratio |-> IF total > 0 THEN (passed * 20000 + total) \div (2 * total) ELSE 0]

NoStatistics == [total_steps |-> 0, success_steps |-> 0, failed_steps |-> 0, pass_ratio |-> 0]

\* the rows of the database the runner writes
EmptyDb ==
    [reports |-> {}, details |-> <<>>,
     case |-> [case_state |-> None, case_last_time |-> None]]

NoTx == [open |-> FALSE, rows |-> EmptyDb, next |-> 1]

\* report_code minted by the engine (execute_case, line 2662) and the one the
\* Report row gets from the model's default (autotest_model.py, line 237)
EngineReportCode == "report_code_engine"
RowReportCode == "report_code_row"

\* execute_case returns: statistics, defer_create_report, pending_create_details
CaseFinish ==
    /\ pc = "engine"
    /\ Len(stack) = 1
    /\ Top.pc = "children"
    /\ Top.idx > Len(Top.todo)
    /\ statistics' = Statistics(Top.children)
    /\ stack' = SetTop([Top EXCEPT !.pc = "done"])
    /\ tx' = [open |-> TRUE, rows |-> db, next |-> 1]      \* async with in_transaction()
    /\ pc' = "tx_report"
    /\ logs' = NoLogs        \* the context is left; the returned logs are not used
    /\ UNCHANGED <<ctxVars, workerVars, due, taskVars, caseVars, batch, loader, orm_init, save_faults,
                   steps, step_cycle_index, current_step_code, pending_details, db, result_data>>

(***************************************************************************)
(* execute_single_case: the transaction that stores the run.               *)
(***************************************************************************)
\* leaving in_transaction() on an exception: the committed rows stay as they were
RollbackKeepsWrites(committed, t) == t.rows
Rollback(committed, t) == committed

\* the unique index (report_code, case_code, step_code, num_cycles); SQL unique
\* indexes never match NULL, so a detail without num_cycles cannot collide
UniqueViolation(details, d) ==
    /\ d.num_cycles # NoCycle
    /\ \E i \in 1..Len(details) :
        /\ details[i].report_code = d.report_code
        /\ details[i].step_code = d.step_code
        /\ details[i].num_cycles = d.num_cycles

\* a write raises: in_transaction() rolls back and the handler logs the error;
\* tx keeps the discarded working copy
TxFail ==
    /\ db' = Rollback(db, tx)
    /\ tx' = [tx EXCEPT !.open = FALSE]
    /\ pc' = "return"

\* AUTOTEST_API_REPORT_CRUD.create_report inside the transaction
CreateReport ==
    /\ pc = "tx_report"
    /\ \/ /\ tx' = [tx EXCEPT !.rows.reports = @ \cup
                        {[report_code |-> RowReportCode,
                          case_state |-> (statistics.failed_steps = 0),
                          step_total |-> statistics.total_steps]}]
          /\ pc' = "tx_details"
          /\ db' = db
       \/ TxFail
    /\ UNCHANGED <<ctxVars, workerVars, appVars, engineVars, statistics, result_data>>

\* one round of: for detail_create in pending_create_details: create_detail(...)
CreateDetail ==
    /\ pc = "tx_details"
    /\ tx.next <= Len(pending_details)
    /\ LET d == [report_code |-> RowReportCode,
                 step_code |-> pending_details[tx.next].step_code,
                 num_cycles |-> pending_details[tx.next].num_cycles,
                 step_state |-> pending_details[tx.next].step_state]
       IN \/ /\ ~UniqueViolation(tx.rows.details, d)
             /\ tx' = [tx EXCEPT !.rows.details = Append(@, d), !.next = @ + 1]
             /\ pc' = pc
             /\ db' = db
          \/ TxFail
    /\ UNCHANGED <<ctxVars, workerVars, appVars, engineVars, statistics, result_data>>

\* AUTOTEST_API_CASE_CRUD.update_case(case_state, case_last_time)
UpdateCase ==
    /\ pc = "tx_details"
    /\ tx.next > Len(pending_details)
    /\ \/ /\ tx' = [tx EXCEPT !.rows.case =
                        [case_state |-> IF statistics.failed_steps = 0
                                        THEN "passed" ELSE "failed",
                         case_last_time |-> "case_ed_time"]]
          /\ pc' = "tx_commit"
          /\ db' = db
       \/ TxFail
    /\ UNCHANGED <<ctxVars, workerVars, appVars, engineVars, statistics, result_data>>

\* leaving in_transaction() normally: commit, which can itself fail
Commit ==
    /\ pc = "tx_commit"
    /\ \/ /\ db' = tx.rows
          /\ tx' = [tx EXCEPT !.open = FALSE]
          /\ pc' = "return"
       \/ TxFail
    /\ UNCHANGED <<ctxVars, workerVars, appVars, engineVars, statistics, result_data>>

\* result_data, lines 966-979
ReturnSummary ==
    /\ pc = "return"
    /\ result_data' = [success |-> (statistics.failed_steps = 0),
                       total_steps |-> statistics.total_steps,
                       success_steps |-> statistics.success_steps,
                       failed_steps |-> statistics.failed_steps,
                       pass_ratio |-> statistics.pass_ratio,
                       report_code |-> EngineReportCode,
                       saved_to_database |-> TRUE]
    /\ pc' = "returned"
    /\ UNCHANGED <<ctxVars, workerVars, appVars, engineVars, statistics, db, tx>>

(***************************************************************************)
(* StepExecutionContext: the two variable pools.  A pool is a list of      *)
(* {key, value} items; None is Python's None.                              *)
(***************************************************************************)
MaxWrites == 3            \* update_variables calls explored in one run

Keys == {"", "k", "j"}
Values == {"v1", "v2", None}
KeyError == "KeyError"
InvalidName == "InvalidName"

Item(k, v) == [key |-> k, value |-> v]

\* get_value_from_list: the value of the first item whose key is name, else None
get_value_from_list(variable_list, name) ==
    IF \E i \in 1..Len(variable_list) : variable_list[i].key = name
    THEN variable_list[CHOOSE i \in 1..Len(variable_list) :
            /\ variable_list[i].key = name
            /\ \A j \in 1..(i - 1) : variable_list[j].key # name].value
    ELSE None

\* one item of update_variables: skipped without a key, else replaces the first
\* item of the same key or is appended
UpsertItem(target_list, item) ==
    IF item.key = "" THEN target_list
    ELSE IF \E i \in 1..Len(target_list) : target_list[i].key = item.key
    THEN [target_list EXCEPT ![CHOOSE i \in 1..Len(target_list) :
            /\ target_list[i].key = item.key
            /\ \A j \in 1..(i - 1) : target_list[j].key # item.key] = item]
    ELSE Append(target_list, item)

\* items are appended whether or not the key is already there
UpdateAppendOnly(target_list, data) == target_list \o data

\* update_variables(data, scope=...): upsert of every item of data, in order
RECURSIVE update_variables(_, _)
update_variables(target_list, data) ==
    IF data = <<>> THEN target_list
    ELSE update_variables(UpsertItem(target_list, Head(data)), Tail(data))

\* get_variable(name): defined_variables first, then session_variables; a
\* value of None counts as not found
get_variable(name) ==
    IF name = "" THEN InvalidName
    ELSE IF get_value_from_list(defined_variables, name) # None
    THEN get_value_from_list(defined_variables, name)
    ELSE IF get_value_from_list(session_variables, name) # None
    THEN get_value_from_list(session_variables, name)
    ELSE KeyError

NoRead == [name |-> "-", value |-> None]

\* the defined_variables a step can be configured with
DefinedChoices ==
    {<<>>, <<Item("k", "d1")>>, <<Item("k", None)>>, <<Item("j", "d1")>>}

\* update_variables([item], scope="session_variables"), as execute() does for
\* extracted variables and the step executors do for their results
UpdateSessionVariables ==
    /\ Len(writes) < MaxWrites
    /\ \E k \in Keys, v \in Values :
        /\ session_variables' = update_variables(session_variables, <<Item(k, v)>>)
        /\ writes' = Append(writes, Item(k, v))
    /\ read' = NoRead
    /\ UNCHANGED <<defined_variables, engineVars, runnerVars, workerVars, appVars>>

\* execute(), line 875: the step's own defined_variables replace the pool
InjectDefinedVariables ==
    /\ \E defs \in DefinedChoices :
        /\ defs # defined_variables
        /\ defined_variables' = defs
    /\ read' = NoRead
    /\ UNCHANGED <<session_variables, writes, engineVars, runnerVars, workerVars, appVars>>

\* a placeholder or a script of the running step asks for a variable
GetVariable ==
    /\ \E name \in Keys : read' = [name |-> name, value |-> get_variable(name)]
    /\ UNCHANGED <<session_variables, defined_variables, writes,
                   engineVars, runnerVars, workerVars, appVars>>

(***************************************************************************)
(* The ITERABLE and DICT loops, which bind their loop variables in the     *)
(* session pool.                                                           *)
(***************************************************************************)
\* list(iterable_obj) of the object loop, dict_obj.items() values of the dict loop
Elements(step) ==
    LET it == step.loop_iterable
    IN  [i \in 1..Len(it.items) |->
            IF it.kind = "dict"
            THEN IF step.loop_mode = "DICT" THEN it.items[i][2] ELSE it.items[i][1]
            ELSE it.items[i]]

index_var_name(step) == IF step.loop_iter_idx = "" THEN "loop_index" ELSE step.loop_iter_idx
value_var_name(step) == IF step.loop_iter_val = "" THEN "loop_value" ELSE step.loop_iter_val

\* f"{name}_{idx}"
VarName(name, idx) == name \o "_" \o ToString(idx)

\* the argument of update_variables in both loops: a dict {name_idx: value};
\* idx is kept in decimal notation
LoopVariables(step, idx, item) ==
    [kind |-> "dict",
     items |-> <<Item(VarName(index_var_name(step), idx), ToString(idx)),
                 Item(VarName(value_var_name(step), idx), item)>>]

\* update_variables, line 253: data that is not a list raises ValueError
NotAList(data) == data.kind # "list"

\* one pass of `for idx, item in enumerate(...)`: at "iter" the head of the
\* iteration up to _execute_children, at "post" the interval wait that ends it
IterableLoopStep ==
    /\ pc = "engine"
    /\ Top.step.step_type = "LOOP"
    /\ Top.step.loop_mode \in {"ITERABLE", "DICT"}
    /\ Top.pc \in {"iter", "post"}
    /\ LET st == Top.step
           items == Elements(st)
           idx == Top.iteration + 1
           wait == Top.iteration < Len(items) /\ st.loop_interval > 0
       IN  IF Top.pc = "post"
           THEN /\ stack' = SetTop(
                    IF wait /\ SleepFails(st.loop_interval)
                    THEN [Top EXCEPT !.success = FALSE, !.error = "sleep", !.pc = "finish"]
                    ELSE [Top EXCEPT !.waits = IF wait THEN @ + 1 ELSE @, !.pc = "iter"])
                /\ UNCHANGED <<step_cycle_index, session_variables>>
           ELSE IF Top.iteration >= Len(items)
           THEN /\ stack' = SetTop([Top EXCEPT !.pc = "finish"])
                /\ UNCHANGED <<step_cycle_index, session_variables>>
           ELSE IF NotAList(LoopVariables(st, idx, items[idx]))
           THEN \* the ValueError leaves the loop as a StepExecutionError (1289-1290, 1404-1405)
                /\ stack' = SetTop([Top EXCEPT !.iteration = idx, !.success = FALSE,
                                               !.error = "loop_exception", !.pc = "finish"])
                /\ step_cycle_index' = [step_cycle_index EXCEPT ![st.step_code] = idx]
                /\ UNCHANGED session_variables
           ELSE /\ session_variables' =
                    update_variables(session_variables, LoopVariables(st, idx, items[idx]).items)
                /\ step_cycle_index' = RecordCycle(step_cycle_index, st, idx)
                /\ stack' = SetTop([Top EXCEPT !.iteration = idx, !.todo = ChildrenOf(st),
                                               !.idx = 1, !.child_results = <<>>,
                                               !.pc = "children"])
    /\ UNCHANGED <<defined_variables, writes, read, workerVars, appVars, steps, current_step_code,
                   pending_details, runnerVars>>

(***************************************************************************)
(* One Celery worker process: the event-loop pool                          *)
(* (AsyncEventLoopContextIOPool), the module-level cache of celery_worker  *)
(* and the Tortoise state of celery_base.  Event loops are numbered in the *)
(* order they are created; 0 stands for no loop.  The database is taken to *)
(* be reachable, so Tortoise.init succeeds and a query on the pool's own   *)
(* loop answers; a query on another loop may answer or raise.              *)
(***************************************************************************)
MaxTasks == 3             \* tasks one worker process handles
MaxForks == 1             \* worker_process_init signals explored

InitWorker ==
    [singleton |-> FALSE,                \* AsyncEventLoopContextIOPool.singleton is set
     loop |-> 0,                         \* the pool object's self.loop
     async_event_loop_pool |-> FALSE,    \* celery_worker._async_event_loop_pool is set
     tortoise_orm_initialized |-> FALSE, \* celery_base._tortoise_orm_initialized
     pool_loop |-> 0,                    \* the loop the connection pool is bound to
     next_loop |-> 1,
     loops |-> {},                       \* loops (and loop threads) started since the last reset
     submitted_on |-> {},                \* loops coroutines were submitted to since then
     db_access |-> {},                   \* database accesses since then: loop used, pool's loop
     fork_mark |-> 0,                    \* the first loop number not inherited from the parent
     records |-> <<>>,                   \* the rows of the execution record table
     events |-> <<>>,                    \* what the handlers did for the current task, in order
     cur_sub |-> 0,                      \* the number of the current run() submission of the task
     tasks |-> 0,
     forks |-> 0]

IdleTask ==
    [phase |-> "idle", kind |-> "-", is_async |-> FALSE, status |-> "-",
     id |-> 0, outcome |-> "-", retval |-> <<>>, result |-> <<>>]

ScanTask == "scan"
OtherTask == "other"

\* AsyncEventLoopContextIOPool(): __new__ hands out the singleton, and __init__
\* runs on every call: a new event loop in a new thread becomes self.loop
NewPool(w) ==
    [w EXCEPT !.singleton = TRUE, !.loop = w.next_loop, !.next_loop = @ + 1,
              !.loops = @ \cup {w.next_loop}]

\* run(coroutine): run_coroutine_threadsafe(coroutine, self.loop)
run(w) == [w EXCEPT !.submitted_on = @ \cup {w.loop}, !.cur_sub = @ + 1]

\* run_in_pool(coroutine): the pool is constructed only when there is no singleton
run_in_pool(w) == run(IF w.singleton THEN w ELSE NewPool(w))

\* get_async_event_loop_pool(): constructs the pool when the module cache is empty
get_async_event_loop_pool(w) ==
    IF w.async_event_loop_pool THEN w
    ELSE [NewPool(w) EXCEPT !.async_event_loop_pool = TRUE]

\* a coroutine running on self.loop uses the connection pool
DbAccess(w) == [w EXCEPT !.db_access = @ \cup {[on |-> w.loop, pool |-> w.pool_loop]}]

\* the handler step op, with its argument, happens inside the current submission
Event(w, op, arg) ==
    [w EXCEPT !.events = Append(@, [op |-> op, sub |-> w.cur_sub, arg |-> arg])]

\* a query issued on the pool's own loop answers; on another loop it answers
\* only if cross_ok
Answers(w, cross_ok) == w.loop = w.pool_loop \/ cross_ok

\* init_tortoise_orm() running on self.loop; check_ok: SELECT 1 answers.  When
\* it raises (a dropped connection, or "attached to a different loop"),
\* Tortoise.init binds the pool anew.
init_tortoise_orm(w, check_ok) ==
    IF w.tortoise_orm_initialized
    THEN IF check_ok THEN Event(DbAccess(w), "init", "check")
         ELSE [Event(DbAccess(w), "init", "again")
                  EXCEPT !.pool_loop = w.loop, !.tortoise_orm_initialized = TRUE]
    ELSE [Event(w, "init", "first") EXCEPT !.pool_loop = w.loop,
                                           !.tortoise_orm_initialized = TRUE]

\* ensure_tortoise_orm_initialized(): run_in_pool(init_tortoise_orm())
ensure_tortoise_orm_initialized(w, check_ok) == init_tortoise_orm(run_in_pool(w), check_ok)

\* _create_task_record: one row with celery_status RUNNING and celery_start_time
create_task_record(w, celery_id, celery_node, cross_ok) ==
    LET w1 == Event(DbAccess(w), "create", "RUNNING")
    IN  IF Answers(w, cross_ok)
        THEN [w1 EXCEPT !.records = Append(@,
                [celery_id |-> celery_id, celery_node |-> celery_node,
                 celery_status |-> "RUNNING", celery_start_time |-> TRUE,
                 celery_end_time |-> FALSE, celery_duration |-> FALSE])]
        ELSE w1

\* the record is written before the database is initialised
CreateThenEnsure(w, celery_id, celery_node, check_ok, cross_ok) ==
    init_tortoise_orm(create_task_record(w, celery_id, celery_node, cross_ok), check_ok)

\* _ensure_tortoise_then_create_task_record: init, then the record, in one coroutine
ensure_tortoise_then_create_task_record(w, celery_id, celery_node, check_ok, cross_ok) ==
    create_task_record(init_tortoise_orm(w, check_ok), celery_id, celery_node, cross_ok)

\* get_by_celery_id: the index of the first row of that celery_id, 0 if none
get_by_celery_id(records, celery_id) ==
    IF \E i \in 1..Len(records) : records[i].celery_id = celery_id
    THEN CHOOSE i \in 1..Len(records) :
            /\ records[i].celery_id = celery_id
            /\ \A j \in 1..(i - 1) : records[j].celery_id # celery_id
    ELSE 0

\* _update_task_record_on_end: the row of celery_id gets its final status,
\* celery_end_time and, computed from celery_start_time, celery_duration
update_task_record_on_end(w, celery_id, success, cross_ok) ==
    LET w1 == Event(DbAccess(w), "update", IF success THEN "SUCCESS" ELSE "FAILURE")
        i == get_by_celery_id(w.records, celery_id)
    IN  IF ~Answers(w, cross_ok) \/ i = 0 THEN w1
        ELSE [w1 EXCEPT !.records[i] =
                [@ EXCEPT !.celery_status = IF success THEN "SUCCESS" ELSE "FAILURE",
                          !.celery_end_time = TRUE,
                          !.celery_duration = @ \/ w.records[i].celery_start_time]]

\* task_prerun: a scan task only initialises Tortoise; any other task runs
\* init and _create_task_record in one coroutine on the cached pool
receiver_task_pre_run ==
    /\ task.phase = "idle"
    /\ worker.tasks < MaxTasks
    /\ \E kind \in {ScanTask, OtherTask}, is_async \in BOOLEAN,
          check_ok \in BOOLEAN, cross_ok \in BOOLEAN :
        LET w0 == [worker EXCEPT !.tasks = @ + 1, !.events = <<>>, !.cur_sub = 0]
        IN  /\ worker' =
                IF kind = ScanTask
                THEN ensure_tortoise_orm_initialized(w0, check_ok)
                ELSE ensure_tortoise_then_create_task_record(
                        run(get_async_event_loop_pool(w0)), w0.tasks, kind,
                        check_ok, cross_ok)
            /\ task' = [IdleTask EXCEPT !.phase = "prerun", !.kind = kind,
                                        !.is_async = is_async, !.id = w0.tasks,
                                        !.status = IF kind = ScanTask THEN "-" ELSE "RUNNING"]
    /\ UNCHANGED <<engineVars, runnerVars, ctxVars, appVars>>

\* what a task body hands back: <<"plain">> is a value that is neither callable
\* nor awaitable, <<"raise">> an exception; "coroutine" and "callable" head an
\* awaitable or a callable, followed by what awaiting or calling it yields
AsyncBodies ==
    {<<"coroutine", "plain">>, <<"coroutine", "raise">>,
     <<"coroutine", "callable", "plain">>, <<"coroutine", "callable", "raise">>,
     <<"coroutine", "coroutine", "plain">>}

SyncBodies == {<<"plain">>, <<"raise">>, <<"callable", "plain">>}

Raise == <<"raise">>

\* AsyncEventLoopContextIOPool.run(task_function): a callable becomes
\* to_thread(task_function), a value that is not awaitable is returned as it
\* is, an awaitable is submitted to self.loop and waited for; its exception is
\* raised, and its result is passed to run() again
RECURSIVE run_result(_, _)
run_result(w, task_function) ==
    IF Head(task_function) \notin {"coroutine", "callable"}
    THEN [w |-> w, ret |-> task_function]
    ELSE IF Tail(task_function) = Raise
         THEN [w |-> run(w), ret |-> Raise]
         ELSE run_result(run(w), Tail(task_function))

\* ContextTask.__call__: ensure_tortoise_orm_initialized(), then the body: an
\* async body runs on the cached pool, a sync body in place, where a run_async
\* call goes through run_in_pool
ContextTaskCall ==
    /\ task.phase = "prerun"
    /\ \E check_ok \in BOOLEAN, uses_db \in BOOLEAN,
          body \in IF task.is_async THEN AsyncBodies ELSE SyncBodies :
        LET w1 == ensure_tortoise_orm_initialized(worker, check_ok)
            r == IF task.is_async
                 THEN run_result(get_async_event_loop_pool(w1), body)
                 ELSE [w |-> IF uses_db THEN run_in_pool(w1) ELSE w1, ret |-> body]
            w2 == IF uses_db THEN DbAccess(r.w) ELSE r.w
        IN  /\ worker' = Event(w2, "body", "-")
            /\ task' = [task EXCEPT !.phase = "called",
                            !.outcome = IF r.ret = Raise THEN "raised" ELSE "returned",
                            !.retval = r.ret,
                            !.result = IF task.is_async THEN Tail(body) ELSE body]
    /\ UNCHANGED <<engineVars, runnerVars, ctxVars, appVars>>

\* handel_task_record: _update_task_record_on_end on the cached pool, except
\* for scan tasks; what it raises is logged
handel_task_record(w, kind, celery_id, success, cross_ok) ==
    IF kind # ScanTask
    THEN update_task_record_on_end(run(get_async_event_loop_pool(w)), celery_id,
                                   success, cross_ok)
    ELSE w

\* Celery calls on_success when the task call returned
on_success ==
    /\ task.phase = "called"
    /\ task.outcome = "returned"
    /\ \E cross_ok \in BOOLEAN :
        worker' = handel_task_record(worker, task.kind, task.id, TRUE, cross_ok)
    /\ task' = [task EXCEPT !.phase = "idle",
                            !.status = IF task.kind = ScanTask THEN "-" ELSE "SUCCESS"]
    /\ UNCHANGED <<engineVars, runnerVars, ctxVars, appVars>>

\* Celery calls on_failure when the task call raised
on_failure ==
    /\ task.phase = "called"
    /\ task.outcome = "raised"
    /\ \E cross_ok \in BOOLEAN :
        worker' = handel_task_record(worker, task.kind, task.id, FALSE, cross_ok)
    /\ task' = [task EXCEPT !.phase = "idle",
                            !.status = IF task.kind = ScanTask THEN "-" ELSE "FAILURE"]
    /\ UNCHANGED <<engineVars, runnerVars, ctxVars, appVars>>

\* the child keeps the parent's Tortoise flag
KeepTortoiseState(w) == w

\* reset_tortoise_orm_state
reset_tortoise_orm_state(w) == [w EXCEPT !.tortoise_orm_initialized = FALSE]

\* AsyncEventLoopContextIOPool.reset_process_state
reset_process_state(w) == [w EXCEPT !.singleton = FALSE]

\* worker_process_init: _reset_async_pool_and_tortoise_after_fork, in a child
\* that inherits the parent's memory and none of its loop threads
ResetAfterFork ==
    /\ task.phase = "idle"
    /\ worker.forks < MaxForks
    /\ LET child == [worker EXCEPT !.loops = {}, !.submitted_on = {}, !.db_access = {},
                                   !.events = <<>>, !.cur_sub = 0,
                                   !.fork_mark = worker.next_loop, !.forks = @ + 1]
       IN  worker' = reset_tortoise_orm_state(reset_process_state(
                        [child EXCEPT !.async_event_loop_pool = FALSE]))
    /\ task' = IdleTask
    /\ UNCHANGED <<engineVars, runnerVars, ctxVars, appVars>>

(***************************************************************************)
(* The explored cases: step trees as get_by_case_id or a debug request     *)
(* hands them to the engine.                                               *)
(***************************************************************************)
OnErrors == {"CONTINUE", "BREAK", "STOP"}

KidsPlain == <<Leaf("c", 1, "any"), Leaf("d", 2, "ok")>>
KidsBad == <<Leaf("c", 1, "ok"), Step("x", 2, "NOTYPE"), Leaf("d", 3, "ok")>>

ScenariosFlat ==
    {<<Leaf("b", 2, "any"), Leaf("a", 1, "any")>>,
     <<Step("x", 1, "NOTYPE"), Leaf("b", 2, "ok")>>,
     <<Step("a", 1, "TCP"), Leaf("b", 2, "ok")>>}

ScenariosLoop ==
    {<<LoopStep("L", 1, "COUNT", n, on, kids), Leaf("b", 2, "ok")>> :
        n \in 0..MaxLoopMaximums, on \in OnErrors \cup {""}, kids \in {KidsPlain, KidsBad}}
    \cup
    {<<[LoopStep("L", 1, "CONDITION", 0, on, KidsPlain)
            EXCEPT !.conditions = cond, !.loop_timeout = t, !.loop_interval = w],
       Leaf("b", 2, "ok")>> :
        on \in OnErrors, cond \in {"", "F", "E"}, t \in {0, 5}, w \in {0, 1}}
    \cup
    {<<[LoopStep("L", 1, "BOGUS", 1, "STOP", KidsPlain) EXCEPT !.loop_interval = 0]>>}
    \cup
    {<<[LoopStep("L", 1, "CONDITION", 0, "BREAK", KidsPlain) EXCEPT !.conditions = "X"],
       Leaf("b", 2, "ok")>>}

ScenariosNested ==
    {<<LoopStep("L", 1, "COUNT", MaxLoopMaximums, on,
            <<LoopStep("M", 1, "COUNT", MaxLoopMaximums, "CONTINUE", <<Leaf("c", 1, o)>>)>>),
       Leaf("b", 2, "ok")>> : on \in OnErrors, o \in {"ok", "fail"}}
    \cup
    {<<LoopStep("L", 1, "COUNT", MaxLoopMaximums, "CONTINUE",
            <<IfStep("I", 1, cond, <<Leaf("d", 3, "ok"), Leaf("c", 1, "ok")>>,
                     <<Leaf("p1", 2, "ok")>>)>>)>> : cond \in {"T", "F", "X", "E"}}
    \cup
    {<<IfStep("I", 1, "T", KidsBad, <<>>), Leaf("b", 2, "ok")>>}

ScenariosQuote ==
    {<<QuoteStep("q2", 2, cid), QuoteStep("q1", 1, 9)>> : cid \in {9, 8, 7, 0}}

\* loops long enough to meet the guard
ScenariosGuard ==
    {<<[LoopStep("L", 1, "COUNT", n, "CONTINUE",
                 <<Leaf("c", 1, "ok"), Leaf("d", 2, "ok")>>) EXCEPT !.loop_interval = w]>> :
        n \in (guard_limit - 1)..(guard_limit + OverGuard), w \in {0, 1, 301}}
    \cup
    {<<[LoopStep("L", 1, "CONDITION", 0, "CONTINUE", <<Leaf("c", 1, "ok")>>)
            EXCEPT !.conditions = "T", !.loop_interval = w]>> : w \in {0, 301}}

\* loops over the elements of a list or a dict
ScenariosIterable ==
    {<<IterLoopStep("L", 1, mode, it, idx_name, val_name, <<Leaf("c", 1, "ok")>>),
       Leaf("b", 2, "ok")>> :
        mode \in {"ITERABLE", "DICT"},
        it \in {NoIterable, StrOf, ListOf(<<>>), ListOf(<<"e1", "e2">>),
                DictOf(<<<<"k1", "e1">>, <<"k2", "e2">>>>)},
        idx_name \in {"", "i"}, val_name \in {"", "v"}}

\* the values an assertion meets
PyValues ==
    {NoneV, IntV(0), IntV(1), BoolV(FALSE), BoolV(TRUE), StrV(""), StrV("a"), StrV("0")}

\* HTTP steps whose request succeeds, with one or two assertions
ScenariosHttp ==
    {<<[Leaf("a", 1, "ok") EXCEPT !.assert_validators = <<Validator(op, e, a)>>]>> :
        op \in Operations, e \in PyValues, a \in PyValues}
    \cup
    {<<[Leaf("a", 1, "ok") EXCEPT !.assert_validators =
            <<Validator("equals", IntV(1), a), Validator("equals", e, IntV(1))>>]>> :
        e \in PyValues, a \in PyValues}
    \cup
    {<<[Leaf("a", 1, "ok") EXCEPT !.extract_variables = <<e1, e2>>,
            !.assert_validators = <<Validator("equals", IntV(1), a)>>], Leaf("b", 2, "ok")>> :
        e1 \in {"found", "no_match", "bad_range"}, e2 \in {"found", "no_match", "bad_range"},
        a \in {IntV(1), IntV(0)}}

Scenarios ==
    ScenariosHttp \cup ScenariosFlat \cup ScenariosLoop \cup ScenariosNested \cup ScenariosQuote
        \cup ScenariosGuard \cup ScenariosIterable

\* the parts a specification leaves at rest
IdleEngine ==
    /\ steps = <<>>
    /\ stack = <<CaseFrame(<<>>)>>
    /\ step_cycle_index = [c \in StepCodes |-> NoCycle]
    /\ current_step_code = None
    /\ pending_details = <<>>
    /\ pc = "idle"
    /\ statistics = NoStatistics
    /\ db = EmptyDb
    /\ tx = NoTx
    /\ result_data = [saved_to_database |-> FALSE]

IdleCtx ==
    /\ session_variables = <<>>
    /\ defined_variables = <<>>
    /\ writes = <<>>
    /\ read = NoRead

IdleWorker ==
    /\ worker = InitWorker
    /\ task = IdleTask

(***************************************************************************)
(* celery_base.py: is a scheduled task due?  Times are whole seconds from  *)
(* 1; NoTime is a datetime column that is NULL (or an attribute the row    *)
(* does not have).                                                         *)
(***************************************************************************)
MaxNow == 4
NoTime == 0
Times == 1..MaxNow

\* get_scheduler_value: the enum value or string, stripped and lower-cased
get_scheduler_value(scheduler) ==
    CASE scheduler = None -> None
      [] scheduler \in {"", "  "} -> None
      [] scheduler \in {"interval", "INTERVAL", " interval "} -> "interval"
      [] scheduler \in {"datetime", "DATETIME"} -> "datetime"
      [] scheduler \in {"cron", "CRON"} -> "cron"
      [] OTHER -> scheduler

\* datetime.strptime(expr, "%Y-%m-%d %H:%M:%S"): NoTime stands for ValueError
strptime(expr) ==
    CASE expr = "1970-01-01 00:00:02" -> 2
      [] expr = "1970-01-01 00:00:03" -> 3
      [] OTHER -> NoTime

\* croniter(expr, base).get_next(): the first firing time after base, for the
\* every-other-second expression; NoTime stands for an expression croniter rejects
croniter_get_next(expr, base) ==
    IF expr = "*/2 * * * * *" THEN ((base \div 2) + 1) * 2 ELSE NoTime

SchedulerTask(scheduler, interval, datetime_expr, crontabs, last, created) ==
    [task_scheduler |-> scheduler, task_interval_expr |-> interval,
     task_datetime_expr |-> datetime_expr, task_crontabs_expr |-> crontabs,
     last_execute_time |-> last, created_time |-> created]

check_task_expired(t, now) ==
    LET scheduler_str == get_scheduler_value(t.task_scheduler)
        last_run == IF t.last_execute_time # NoTime THEN t.last_execute_time
                    ELSE t.created_time
    IN  IF scheduler_str = None THEN FALSE
        ELSE IF scheduler_str = "cron"
        THEN LET base == IF last_run # NoTime THEN last_run ELSE now
                 next_run == croniter_get_next(t.task_crontabs_expr, base)
             IN  /\ t.task_crontabs_expr # ""
                 /\ next_run # NoTime
                 /\ next_run <= now
        ELSE IF scheduler_str = "interval"
        THEN LET seconds == t.task_interval_expr       \* None is kept as 0
             IN  IF seconds <= 0 THEN FALSE
                 ELSE IF last_run = NoTime THEN TRUE
                 ELSE now - last_run >= seconds
        ELSE IF scheduler_str = "datetime"
        THEN LET target == strptime(t.task_datetime_expr)
             IN  IF t.task_datetime_expr = "" \/ target = NoTime THEN FALSE
                 ELSE IF last_run # NoTime /\ last_run >= target THEN FALSE
                 ELSE now >= target
        ELSE FALSE

NoCheck == [asked |-> FALSE]

\* the rows the scan may ask about at time now: a row is created before it
\* runs and runs before now
TasksAt(now) ==
    {SchedulerTask(scheduler, expr[1], expr[2], expr[3], ran[1], ran[2]) :
        scheduler \in {None, "", "interval", " interval ", "datetime", "cron", "once"},
        expr \in {<<0, "", "">>, <<-1, "", "">>, <<2, "", "">>, <<3, "", "">>,
                  <<0, "1970-01-01 00:00:02", "">>, <<0, "1970-01-01 00:00:03", "">>,
                  <<0, "tomorrow", "">>,
                  <<0, "", "*/2 * * * * *">>, <<0, "", "every day">>},
        ran \in {p \in ({NoTime} \cup 1..now) \X ({NoTime} \cup 1..now) :
                    p[1] = NoTime \/ p[2] <= p[1]}}

\* one call of check_task_expired
CheckTaskExpired ==
    /\ due.asked
    /\ due.expired = "unasked"
    /\ due' = [due EXCEPT !.expired =
                IF check_task_expired(due.task, due.now) THEN "due" ELSE "not_due"]
    /\ UNCHANGED <<engineVars, runnerVars, ctxVars, workerVars, moreVars, taskVars, caseVars, batch>>

\* the next scan asks again, later
NextScan ==
    /\ due.asked
    /\ due.expired # "unasked"
    /\ due.now < MaxNow
    /\ due' = [due EXCEPT !.now = due.now + 1, !.expired = "unasked"]
    /\ UNCHANGED <<engineVars, runnerVars, ctxVars, workerVars, moreVars, taskVars, caseVars, batch>>

(***************************************************************************)
(* The task table: the scan query of celery_base.py and the requests of    *)
(* autotest_task_crud.py that take a task out of scheduling.  A request    *)
(* reads the row, then saves it; other requests run in between.            *)
(***************************************************************************)
MaxTaskRows == 1
MaxTaskOps == 2
TaskIds == 1..MaxTaskRows

TaskRow(enabled, scheduler, task_type) ==
    [state |-> 0, task_enabled |-> enabled, task_scheduler |-> scheduler,
     task_type |-> task_type]

\* set_task_enabled saves one column: what else it read is never used
NoInstance == [state |-> 0]
NoTaskLog == [deleted |-> FALSE, disabled |-> FALSE, last_enabled |-> "unset"]
NoScan == [task_type |-> None, ids |-> {}, rows |-> {}, turn |-> 0]

\* get_scheduled_tasks that forgets the state column
ScanDeletedToo(table, task_type) ==
    IF task_type = "" THEN {}
    ELSE {id \in DOMAIN table :
            /\ table[id].task_enabled
            /\ table[id].task_scheduler # None
            /\ table[id].task_type = task_type}

\* the ids of Model.filter(q).all()
get_scheduled_tasks(table, task_type) ==
    IF task_type = "" THEN {}
    ELSE {id \in DOMAIN table :
            /\ table[id].state = 0
            /\ table[id].task_enabled
            /\ table[id].task_scheduler # None
            /\ table[id].task_type = task_type}

\* one periodic scan
ScanTasks ==
    /\ \E task_type \in {"autotest", "other", ""} :
        LET ids == get_scheduled_tasks(tasks, task_type)
        IN  scanned' = [task_type |-> task_type, ids |-> ids,
                        rows |-> {tasks[id] : id \in ids},
                        turn |-> 1 - scanned.turn]      \* tells a scan from the one before
    /\ UNCHANGED <<engineVars, runnerVars, ctxVars, workerVars, moreVars, due, batch, caseVars,
                   tasks, task_ops, task_log>>

\* get_by_id(on_error=True) of delete_task and set_task_enabled: rows with
\* state 1 are not found and the request ends with NotFoundException
TaskGetById ==
    /\ Cardinality(task_ops) < MaxTaskOps
    /\ \E id \in TaskIds, op \in {"delete_task", "enable", "disable"} :
        /\ tasks[id].state # 1
        /\ task_ops' = task_ops \cup
                {[op |-> op, id |-> id,
                  instance |-> IF op = "delete_task" THEN tasks[id] ELSE NoInstance]}
    /\ UNCHANGED <<engineVars, runnerVars, ctxVars, workerVars, moreVars, due, batch, caseVars,
                   tasks, task_log, scanned>>

\* delete_task: instance.state = 1; instance.task_enabled = False;
\* instance.save() writes every column of the instance that was read
delete_task ==
    \E r \in task_ops :
        /\ r.op = "delete_task"
        /\ tasks' = [tasks EXCEPT ![r.id] =
                        [r.instance EXCEPT !.state = 1, !.task_enabled = FALSE]]
        /\ task_ops' = task_ops \ {r}
        /\ task_log' = [task_log EXCEPT ![r.id].deleted = TRUE]
        /\ UNCHANGED <<engineVars, runnerVars, ctxVars, workerVars, moreVars, due, batch, caseVars, scanned>>

\* set_task_enabled: save(update_fields=["task_enabled"]) writes that column only
set_task_enabled ==
    \E r \in task_ops :
        /\ r.op \in {"enable", "disable"}
        /\ tasks' = [tasks EXCEPT ![r.id].task_enabled = (r.op = "enable")]
        /\ task_ops' = task_ops \ {r}
        /\ task_log' = [task_log EXCEPT
                            ![r.id].disabled = @ \/ r.op = "disable",
                            ![r.id].last_enabled = r.op]
        /\ UNCHANGED <<engineVars, runnerVars, ctxVars, workerVars, moreVars, due, batch, caseVars, scanned>>

IdleTasks ==
    /\ tasks = [id \in TaskIds |-> TaskRow(FALSE, None, None)]
    /\ task_ops = {}
    /\ task_log = [id \in TaskIds |-> NoTaskLog]
    /\ scanned = NoScan

(***************************************************************************)
(* The case and step tables under the requests of autotest_case_crud.py    *)
(* and autotest_step_crud.py.  A request runs its checks, awaits, and then *)
(* writes; other requests run in between.  An id of 0 is a NULL reference. *)
(***************************************************************************)
MaxCases == 2
MaxStepRows == 2
MaxCaseOps == 2
MaxUpdates == 2
CaseIds == 1..MaxCases
StepIds == 1..MaxStepRows

\* create_case: case_version = 1, state 0
CaseRow == [state |-> 0, case_version |-> 1]

NoStepRow == [exists |-> FALSE]

StepRow(case_id, parent_step_id, quote_case_id, step_type) ==
    [exists |-> TRUE, state |-> 0, case_id |-> case_id, parent_step_id |-> parent_step_id,
     quote_case_id |-> quote_case_id, step_type |-> step_type]

\* filter(id=..., state__not=1).first() of both get_by_id
ActiveCase(id) == id \in CaseIds /\ cases[id].state # 1
ActiveStep(id) == id \in StepIds /\ step_rows[id].exists /\ step_rows[id].state # 1

\* requests in flight are told apart by the slot they hold
FreeSlot == CHOOSE n \in 1..MaxCaseOps : \A r \in case_ops : r.slot # n

\* update_case up to its write: the instance is read, the new version computed
UpdateCaseRead ==
    /\ Cardinality(case_ops) < MaxCaseOps
    /\ \E case_id \in CaseIds :
        /\ ActiveCase(case_id)
        /\ updates[case_id] + Cardinality({r \in case_ops : r.op = "update_case" /\ r.id = case_id})
                < MaxUpdates
        /\ case_ops' = case_ops \cup
                {[slot |-> FreeSlot, op |-> "update_case", id |-> case_id,
                  case_version |-> cases[case_id].case_version + 1]}
    /\ UNCHANGED <<engineVars, runnerVars, ctxVars, workerVars, moreVars, due, batch, taskVars,
                   cases, step_rows, updates>>

\* update_case: self.update(id=case_id, obj_in=update_dict)
update_case ==
    \E r \in case_ops :
        /\ r.op = "update_case"
        /\ cases' = [cases EXCEPT ![r.id].case_version = r.case_version]
        /\ updates' = [updates EXCEPT ![r.id] = @ + 1]
        /\ case_ops' = case_ops \ {r}
        /\ UNCHANGED <<engineVars, runnerVars, ctxVars, workerVars, moreVars, due, batch, taskVars, step_rows>>

\* create_step up to its insert: the case exists, the parent step exists and
\* is of the same case, the quoted case exists.  The parent's step_type is
\* not looked at.  (step_no is taken fresh, so the step_no check passes.)
CreateStepChecks ==
    /\ Cardinality(case_ops) < MaxCaseOps
    /\ \E case_id \in CaseIds, parent_step_id \in {0} \cup StepIds,
          quote_case_id \in {0} \cup CaseIds, step_type \in {"HTTP", "LOOP", "QUOTE"} :
        /\ ActiveCase(case_id)
        /\ parent_step_id # 0 =>
            /\ ActiveStep(parent_step_id)
            /\ step_rows[parent_step_id].case_id = case_id
        /\ quote_case_id # 0 => ActiveCase(quote_case_id)
        /\ (step_type = "QUOTE") = (quote_case_id # 0)
        /\ case_ops' = case_ops \cup
                {[slot |-> FreeSlot, op |-> "create_step",
                  row |-> StepRow(case_id, parent_step_id, quote_case_id, step_type)]}
    /\ UNCHANGED <<engineVars, runnerVars, ctxVars, workerVars, moreVars, due, batch, taskVars,
                   cases, step_rows, updates>>

\* create_step: self.create(step_dict)
create_step ==
    \E r \in case_ops :
        /\ r.op = "create_step"
        /\ \E id \in StepIds :
            /\ ~step_rows[id].exists
            /\ \A other \in StepIds : other < id => step_rows[other].exists
            /\ step_rows' = [step_rows EXCEPT ![id] = r.row]
        /\ case_ops' = case_ops \ {r}
        /\ UNCHANGED <<engineVars, runnerVars, ctxVars, workerVars, moreVars, due, batch, taskVars, cases, updates>>

\* update_step up to its write, for a request that changes step_type or
\* quote_case_id: the step exists, the quoted case exists.  (A request that
\* sets parent_step_id fails in the parent query, which filters the step
\* table by case_type, a column the step table does not have.)
UpdateStepChecks ==
    /\ Cardinality(case_ops) < MaxCaseOps
    /\ \E step_id \in StepIds, quote_case_id \in {0} \cup CaseIds,
          step_type \in {"HTTP", "LOOP", "QUOTE"} :
        /\ ActiveStep(step_id)
        /\ quote_case_id # 0 => ActiveCase(quote_case_id)
        /\ (step_type = "QUOTE") = (quote_case_id # 0)
        /\ case_ops' = case_ops \cup
                {[slot |-> FreeSlot, op |-> "update_step", id |-> step_id,
                  quote_case_id |-> quote_case_id, step_type |-> step_type]}
    /\ UNCHANGED <<engineVars, runnerVars, ctxVars, workerVars, moreVars, due, batch, taskVars,
                   cases, step_rows, updates>>

\* update_step: self.update(id=step_id, obj_in=update_dict)
update_step ==
    \E r \in case_ops :
        /\ r.op = "update_step"
        /\ step_rows' = [step_rows EXCEPT ![r.id].step_type = r.step_type,
                                        ![r.id].quote_case_id = r.quote_case_id]
        /\ case_ops' = case_ops \ {r}
        /\ UNCHANGED <<engineVars, runnerVars, ctxVars, workerVars, moreVars, due, batch, taskVars, cases, updates>>

\* delete_case up to its save: the case exists, no active step belongs to it,
\* no active step quotes it
DeleteCaseChecks ==
    /\ Cardinality(case_ops) < MaxCaseOps
    /\ \E case_id \in CaseIds :
        /\ ActiveCase(case_id)
        /\ {id \in StepIds : ActiveStep(id) /\ step_rows[id].case_id = case_id} = {}
        /\ {id \in StepIds : ActiveStep(id) /\ step_rows[id].quote_case_id = case_id} = {}
        /\ case_ops' = case_ops \cup {[slot |-> FreeSlot, op |-> "delete_case", id |-> case_id]}
    /\ UNCHANGED <<engineVars, runnerVars, ctxVars, workerVars, moreVars, due, batch, taskVars,
                   cases, step_rows, updates>>

\* delete_case: instance.state = 1; save(update_fields={"state"})
delete_case ==
    \E r \in case_ops :
        /\ r.op = "delete_case"
        /\ cases' = [cases EXCEPT ![r.id].state = 1]
        /\ case_ops' = case_ops \ {r}
        /\ UNCHANGED <<engineVars, runnerVars, ctxVars, workerVars, moreVars, due, batch, taskVars,
                       step_rows, updates>>

IdleCases ==
    /\ cases = [id \in CaseIds |-> CaseRow]
    /\ step_rows = [id \in StepIds |-> NoStepRow]
    /\ case_ops = {}
    /\ updates = [id \in CaseIds |-> 0]

(***************************************************************************)
(* batch_execute_cases: the cases of a batch, one execute_single_case call *)
(* after the other.                                                        *)
(***************************************************************************)
MaxBatch == 3

NoBatch == [called |-> FALSE]

\* what one execute_single_case call does: it returns a summary with success
\* true or false, returns None, or raises
CaseOutcomes == {"passed", "failed", "none", "raised"}

\* the body of the for loop that gives up the batch when a case raises
BatchStopsOnRaise(b, case_id, outcome) ==
    IF outcome \in {"none", "raised"}
    THEN [b EXCEPT !.failed_cases = @ + 1, !.next = Len(b.case_ids) + 1]
    ELSE [b EXCEPT
            !.results = Append(@, [case_id |-> case_id, success |-> outcome = "passed",
                                   error |-> None, saved_to_database |-> TRUE]),
            !.success_cases = IF outcome = "passed" THEN @ + 1 ELSE @,
            !.failed_cases = IF outcome = "passed" THEN @ ELSE @ + 1,
            !.next = @ + 1]

\* the body of the for loop.  result["error"] = None on a None result raises
\* TypeError, which the same except clause catches
batch_case(b, case_id, outcome) ==
    IF outcome \in {"none", "raised"}
    THEN [b EXCEPT
            !.results = Append(@, [case_id |-> case_id, success |-> FALSE,
                                   error |-> outcome, saved_to_database |-> FALSE]),
            !.failed_cases = @ + 1,
            !.next = @ + 1]
    ELSE [b EXCEPT
            !.results = Append(@, [case_id |-> case_id, success |-> outcome = "passed",
                                   error |-> None, saved_to_database |-> TRUE]),
            !.success_cases = IF outcome = "passed" THEN @ + 1 ELSE @,
            !.failed_cases = IF outcome = "passed" THEN @ ELSE @ + 1,
            !.next = @ + 1]

\* for case_id in case_ids: one round
BatchExecuteCase ==
    /\ batch.called
    /\ ~batch.returned
    /\ batch.next <= Len(batch.case_ids)
    /\ \E outcome \in CaseOutcomes :
        batch' = batch_case(batch, batch.case_ids[batch.next], outcome)
    /\ UNCHANGED <<engineVars, runnerVars, ctxVars, workerVars, moreVars, due, taskVars, caseVars>>

\* return {"total_cases": ..., "success_cases": ..., "failed_cases": ..., "results": ...}
BatchReturn ==
    /\ batch.called
    /\ ~batch.returned
    /\ batch.next > Len(batch.case_ids)
    /\ batch' = [batch EXCEPT !.returned = TRUE]
    /\ UNCHANGED <<engineVars, runnerVars, ctxVars, workerVars, moreVars, due, taskVars, caseVars>>

(***************************************************************************)
(* The finally block of execute() merging a step's extraction records into *)
(* the session variables.                                                  *)
(***************************************************************************)
\* extract_list: one {"key": name, "value": extract_value} per record; a
\* failed extraction has recorded extract_value None
ExtractList(name, records) ==
    [i \in 1..Len(records) |-> Item(name, IF records[i].success THEN "v2" ELSE None)]

\* self.context.update_variables(extract_list, scope="session_variables")
MergeExtractVariables ==
    /\ Len(writes) < MaxWrites
    /\ \E name \in Keys \ {""}, entry \in {"found", "bad_range"} :
        LET extract_list == ExtractList(name, extract_variables(<<entry>>).results)
        IN  /\ session_variables' = update_variables(session_variables, extract_list)
            /\ writes' = writes \o extract_list
    /\ read' = NoRead
    /\ UNCHANGED <<defined_variables, engineVars, runnerVars, workerVars, appVars>>

(***************************************************************************)
(* get_by_case_id: loading the step tree of a case.  build_step_tree calls *)
(* itself for the children of a step and for the root steps of the case it *)
(* quotes; the chain of running calls is kept explicitly.                  *)
(***************************************************************************)
\* the interpreter's limit on the depth of running calls
RecursionLimit == 4

NoLoad == [pc |-> "idle"]

\* self.model.filter(case_id=..., parent_step_id__isnull=True, state__not=1)
RootSteps(case_id) ==
    {id \in StepIds : ActiveStep(id) /\ step_rows[id].case_id = case_id
                      /\ step_rows[id].parent_step_id = 0}

\* self.model.filter(parent_step_id=step.id, state__not=1)
ChildSteps(step_id) ==
    {id \in StepIds : ActiveStep(id) /\ step_rows[id].parent_step_id = step_id}

\* .order_by("step_no").all(): the rows of a set, in ascending order
RECURSIVE OrderBy(_)
OrderBy(ids) ==
    IF ids = {} THEN <<>>
    ELSE LET first == CHOOSE id \in ids : \A other \in ids : id <= other
         IN <<first>> \o OrderBy(ids \ {first})

\* the calls one build_step_tree(step) makes: its children, then the root
\* steps of the quoted case when that case exists
BuildCalls(step_id) ==
    LET quote_case_id == step_rows[step_id].quote_case_id
    IN OrderBy(ChildSteps(step_id)) \o
       (IF quote_case_id # 0 /\ ActiveCase(quote_case_id)
        THEN OrderBy(RootSteps(quote_case_id)) ELSE <<>>)

\* get_by_case_id up to its first build_step_tree call
GetByCaseId ==
    /\ loader.pc = "idle"
    /\ \E case_id \in CaseIds \cup {MaxCases + 1} :
        loader' = IF ActiveCase(case_id)
                  THEN [pc |-> "building", case_id |-> case_id, total_steps |-> 0,
                        calls |-> <<[step_id |-> 0, todo |-> OrderBy(RootSteps(case_id))]>>]
                  ELSE [pc |-> "not_found", case_id |-> case_id]
    /\ UNCHANGED <<engineVars, runnerVars, ctxVars, workerVars, due, batch, taskVars, caseVars, orm_init, save_faults, logs>>

\* a running call calls build_step_tree for its next step
BuildStepTree ==
    /\ loader.pc = "building"
    /\ LET top == loader.calls[Len(loader.calls)]
       IN /\ top.todo # <<>>
          /\ loader' =
                IF Len(loader.calls) > RecursionLimit
                THEN [loader EXCEPT !.pc = "RecursionError"]
                ELSE [loader EXCEPT
                        !.total_steps = @ + 1,
                        !.calls = Append([@ EXCEPT ![Len(@)].todo = Tail(top.todo)],
                                         [step_id |-> Head(top.todo),
                                          todo |-> BuildCalls(Head(top.todo))])]
    /\ UNCHANGED <<engineVars, runnerVars, ctxVars, workerVars, due, batch, taskVars, caseVars, orm_init, save_faults, logs>>

\* return step_dict
BuildStepTreeReturn ==
    /\ loader.pc = "building"
    /\ Len(loader.calls) > 1
    /\ loader.calls[Len(loader.calls)].todo = <<>>
    /\ loader' = [loader EXCEPT !.calls = SubSeq(@, 1, Len(@) - 1)]
    /\ UNCHANGED <<engineVars, runnerVars, ctxVars, workerVars, due, batch, taskVars, caseVars, orm_init, save_faults, logs>>

\* result.append(step_counter); return result
GetByCaseIdReturn ==
    /\ loader.pc = "building"
    /\ Len(loader.calls) = 1
    /\ loader.calls[1].todo = <<>>
    /\ loader' = [loader EXCEPT !.pc = "returned"]
    /\ UNCHANGED <<engineVars, runnerVars, ctxVars, workerVars, due, batch, taskVars, caseVars, orm_init, save_faults, logs>>

(***************************************************************************)
(* init_tortoise_orm coroutines submitted to the pool loop by run() from   *)
(* several caller threads.  The pool loop is one thread: it runs one       *)
(* coroutine at a time, up to that coroutine's next await.                 *)
(***************************************************************************)
MaxCallers == 3

Callers == 1..MaxCallers

NoHolder == 0

\* the first await a coroutine reaches once it holds the lock
FirstAwait(initialized) == IF initialized THEN "await_select" ELSE "await_init"

\* run(): aio.run_coroutine_threadsafe(task_function, self.loop); the caller
\* thread then waits in result.exception()
RunCoroutineThreadsafe ==
    /\ \E c \in Callers :
        /\ orm_init.co[c] = "unsubmitted"
        /\ orm_init' = [orm_init EXCEPT !.co[c] = "ready"]
    /\ UNCHANGED <<engineVars, runnerVars, ctxVars, workerVars, due, batch, taskVars, caseVars, loader, save_faults, logs>>

\* the loop thread starts a submitted coroutine: with _init_threading_safe_lock.
\* A free lock is taken and the coroutine runs to its first await; a held
\* threading.Lock makes acquire() block the loop thread itself
AcquireInitLock ==
    /\ ~orm_init.loop_blocked
    /\ \E c \in Callers :
        /\ orm_init.co[c] = "ready"
        /\ orm_init' =
            IF orm_init.lock = NoHolder
            THEN [orm_init EXCEPT !.lock = c,
                                  !.co[c] = FirstAwait(orm_init.tortoise_orm_initialized)]
            ELSE [orm_init EXCEPT !.loop_blocked = TRUE, !.co[c] = "acquiring"]
    /\ UNCHANGED <<engineVars, runnerVars, ctxVars, workerVars, due, batch, taskVars, caseVars, loader, save_faults, logs>>

\* await conn.execute_query("SELECT 1") completes: return (the lock is
\* released), or the query failed, the flag is cleared, the connections are
\* closed and the coroutine goes on to Tortoise.init
SelectCompletes ==
    /\ ~orm_init.loop_blocked
    /\ \E c \in Callers, ok \in BOOLEAN :
        /\ orm_init.co[c] = "await_select"
        /\ orm_init' =
            IF ok
            THEN [orm_init EXCEPT !.co[c] = "returned", !.lock = NoHolder]
            ELSE [orm_init EXCEPT !.co[c] = "await_init", !.tortoise_orm_initialized = FALSE]
    /\ UNCHANGED <<engineVars, runnerVars, ctxVars, workerVars, due, batch, taskVars, caseVars, loader, save_faults, logs>>

\* await Tortoise.init(config=config) completes: the flag is set, or the
\* error is raised; the lock is released either way
TortoiseInitCompletes ==
    /\ ~orm_init.loop_blocked
    /\ \E c \in Callers, ok \in BOOLEAN :
        /\ orm_init.co[c] = "await_init"
        /\ orm_init' =
            IF ok
            THEN [orm_init EXCEPT !.co[c] = "returned", !.lock = NoHolder,
                                  !.tortoise_orm_initialized = TRUE]
            ELSE [orm_init EXCEPT !.co[c] = "raised", !.lock = NoHolder]
    /\ UNCHANGED <<engineVars, runnerVars, ctxVars, workerVars, due, batch, taskVars, caseVars, loader, save_faults, logs>>

NoOrmInit ==
    [tortoise_orm_initialized |-> FALSE, lock |-> NoHolder, loop_blocked |-> FALSE,
     co |-> [c \in Callers |-> "unsubmitted"]]

IdleMore ==
    /\ loader = NoLoad
    /\ orm_init = NoOrmInit
    /\ save_faults = 0
    /\ logs = NoLogs

IdleApp ==
    /\ due = NoCheck
    /\ IdleTasks
    /\ IdleCases
    /\ IdleMore
    /\ batch = NoBatch

(***************************************************************************)
(* Specification of one run of execute_single_case.                        *)
(***************************************************************************)
Init ==
    /\ steps \in Scenarios
    /\ stack = <<CaseFrame(steps)>>
    /\ step_cycle_index = [c \in StepCodes |-> NoCycle]
    /\ current_step_code = None
    /\ pending_details = <<>>
    /\ pc = "engine"
    /\ statistics = NoStatistics
    /\ db = EmptyDb
    /\ tx = NoTx
    /\ result_data = [saved_to_database |-> FALSE]
    /\ IdleCtx
    /\ IdleWorker
    /\ IdleApp

Next ==
    \/ Dispatch
    \/ CreateExecutorFails
    \/ LeafExecute
    \/ IfExecute
    \/ IfChildrenDone
    \/ QuoteExecute
    \/ QuoteChildrenDone
    \/ LoopBegin
    \/ CountIterBegin
    \/ ConditionIterBegin
    \/ LoopChildrenDone
    \/ CountLoopPost
    \/ ConditionLoopPost
    \/ IterableLoopStep
    \/ StepFinish
    \/ CaseFinish
    \/ CreateReport
    \/ CreateDetail
    \/ UpdateCase
    \/ Commit
    \/ ReturnSummary

Spec == Init /\ [][Next]_vars

(***************************************************************************)
(* Specification of one run of execute_single_case in which building a     *)
(* step's Detail can fail.                                                 *)
(***************************************************************************)
MaxSaveFaults == 1

InitDetail ==
    /\ steps \in ScenariosFlat \cup ScenariosNested \cup ScenariosQuote
                 \cup ScenariosIterable \cup ScenariosHttp
                 \cup {<<[LoopStep("L", 1, "CONDITION", 0, "BREAK", KidsPlain)
                            EXCEPT !.conditions = "F"],
                         Leaf("b", 2, "ok")>>}
    /\ stack = <<CaseFrame(steps)>>
    /\ step_cycle_index = [c \in StepCodes |-> NoCycle]
    /\ current_step_code = None
    /\ pending_details = <<>>
    /\ pc = "engine"
    /\ statistics = NoStatistics
    /\ db = EmptyDb
    /\ tx = NoTx
    /\ result_data = [saved_to_database |-> FALSE]
    /\ IdleCtx
    /\ IdleWorker
    /\ due = NoCheck
    /\ IdleTasks
    /\ IdleCases
    /\ batch = NoBatch
    /\ loader = NoLoad
    /\ orm_init = NoOrmInit
    /\ save_faults \in 0..MaxSaveFaults
    /\ logs = NoLogs

SpecDetail == InitDetail /\ [][Next]_vars

(***************************************************************************)
(* Specification of the variable pools of one execution context.           *)
(***************************************************************************)
InitVars ==
    /\ IdleEngine
    /\ IdleWorker
    /\ session_variables \in {<<>>, <<Item("j", "v1")>>, <<Item("k", "v2"), Item("j", "v1")>>}
    /\ defined_variables = <<>>
    /\ writes = <<>>
    /\ read = NoRead
    /\ IdleApp

NextVars ==
    \/ UpdateSessionVariables
    \/ MergeExtractVariables
    \/ InjectDefinedVariables
    \/ GetVariable

SpecVars == InitVars /\ [][NextVars]_vars

(***************************************************************************)
(* Specification of one worker process handling tasks one after another.   *)
(***************************************************************************)
InitWorkerProcess ==
    /\ IdleEngine
    /\ IdleCtx
    /\ IdleWorker
    /\ IdleApp

NextWorker ==
    \/ receiver_task_pre_run
    \/ ContextTaskCall
    \/ on_success
    \/ on_failure
    \/ ResetAfterFork

SpecWorker == InitWorkerProcess /\ [][NextWorker]_vars

(***************************************************************************)
(* Specification of the scheduler's due check.                             *)
(***************************************************************************)
InitDue ==
    /\ IdleEngine
    /\ IdleCtx
    /\ IdleWorker
    /\ \E now \in Times : \E t \in TasksAt(now) :
            due = [asked |-> TRUE, task |-> t, now |-> now, expired |-> "unasked"]
    /\ IdleTasks
    /\ IdleCases
    /\ IdleMore
    /\ batch = NoBatch

NextDue ==
    \/ CheckTaskExpired
    \/ NextScan

SpecDue == InitDue /\ [][NextDue]_vars

(***************************************************************************)
(* Specification of the task table under concurrent requests and scans.    *)
(***************************************************************************)
InitTasks ==
    /\ IdleEngine
    /\ IdleCtx
    /\ IdleWorker
    /\ due = NoCheck
    /\ tasks \in [TaskIds -> {TaskRow(TRUE, "interval", "autotest"),
                              TaskRow(TRUE, None, "autotest"),
                              TaskRow(TRUE, "cron", "other"),
                              TaskRow(FALSE, "interval", "autotest")}]
    /\ task_ops = {}
    /\ task_log = [id \in TaskIds |-> NoTaskLog]
    /\ scanned = NoScan
    /\ IdleCases
    /\ IdleMore
    /\ batch = NoBatch

NextTasks ==
    \/ ScanTasks
    \/ TaskGetById
    \/ delete_task
    \/ set_task_enabled

SpecTasks == InitTasks /\ [][NextTasks]_vars

(***************************************************************************)
(* Specification of the case and step tables under concurrent requests.    *)
(***************************************************************************)
InitCases ==
    /\ IdleEngine
    /\ IdleCtx
    /\ IdleWorker
    /\ due = NoCheck
    /\ IdleTasks
    /\ IdleCases
    /\ IdleMore
    /\ batch = NoBatch

NextCases ==
    \/ UpdateCaseRead
    \/ update_case
    \/ CreateStepChecks
    \/ create_step
    \/ UpdateStepChecks
    \/ update_step
    \/ DeleteCaseChecks
    \/ delete_case

SpecCases == InitCases /\ [][NextCases]_vars

(***************************************************************************)
(* Specification of one get_by_case_id call on a stored configuration of   *)
(* cases and steps: every step row is one that create_step accepts.        *)
(***************************************************************************)
StoredSteps ==
    {rows \in [StepIds -> {NoStepRow} \cup
                    {StepRow(c, p, q, t) : c \in CaseIds, p \in {0} \cup StepIds,
                                           q \in {0} \cup CaseIds, t \in {"HTTP", "LOOP", "QUOTE"}}] :
        \A id \in StepIds :
            /\ ~rows[id].exists => \A other \in StepIds : other > id => ~rows[other].exists
            /\ rows[id].exists =>
                /\ (rows[id].step_type = "QUOTE") = (rows[id].quote_case_id # 0)
                /\ rows[id].parent_step_id # 0 =>
                    /\ rows[id].parent_step_id < id
                    /\ rows[rows[id].parent_step_id].case_id = rows[id].case_id}

InitTree ==
    /\ IdleEngine
    /\ IdleCtx
    /\ IdleWorker
    /\ due = NoCheck
    /\ IdleTasks
    /\ cases = [id \in CaseIds |-> CaseRow]
    /\ step_rows \in StoredSteps
    /\ case_ops = {}
    /\ updates = [id \in CaseIds |-> 0]
    /\ batch = NoBatch
    /\ loader = NoLoad
    /\ orm_init = NoOrmInit
    /\ save_faults = 0
    /\ logs = NoLogs

NextTree ==
    \/ GetByCaseId
    \/ BuildStepTree
    \/ BuildStepTreeReturn
    \/ GetByCaseIdReturn

SpecTree == InitTree /\ [][NextTree]_vars

(***************************************************************************)
(* Specification of init_tortoise_orm calls from several caller threads.   *)
(***************************************************************************)
InitOrmInit ==
    /\ IdleEngine
    /\ IdleCtx
    /\ IdleWorker
    /\ due = NoCheck
    /\ IdleTasks
    /\ IdleCases
    /\ batch = NoBatch
    /\ loader = NoLoad
    /\ save_faults = 0
    /\ logs = NoLogs
    /\ \E initialized \in BOOLEAN :
        orm_init = [NoOrmInit EXCEPT !.tortoise_orm_initialized = initialized]

NextOrmInit ==
    \/ RunCoroutineThreadsafe
    \/ AcquireInitLock
    \/ SelectCompletes
    \/ TortoiseInitCompletes

SpecOrmInit == InitOrmInit /\ [][NextOrmInit]_vars

(***************************************************************************)
(* Specification of one batch_execute_cases call.                          *)
(***************************************************************************)
InitBatch ==
    /\ IdleEngine
    /\ IdleCtx
    /\ IdleWorker
    /\ due = NoCheck
    /\ IdleTasks
    /\ IdleCases
    /\ IdleMore
    /\ \E n \in 0..MaxBatch : \E case_ids \in [1..n -> CaseIds] :
            batch = [called |-> TRUE, case_ids |-> case_ids, total_cases |-> Len(case_ids),
                     success_cases |-> 0, failed_cases |-> 0, results |-> <<>>,
                     next |-> 1, returned |-> FALSE]

NextBatch ==
    \/ BatchExecuteCase
    \/ BatchReturn

SpecBatch == InitBatch /\ [][NextBatch]_vars

(***************************************************************************)
(* Properties of the engine and the runner.                                *)
(***************************************************************************)
\* the run committed in full: one Report, a Detail per collected payload, the case update
FullySaved(d) ==
    /\ Cardinality(d.reports) = 1
    /\ Len(d.details) = Len(pending_details)
    /\ \A i \in 1..Len(d.details) :
        /\ d.details[i].step_code = pending_details[i].step_code
        /\ d.details[i].num_cycles = pending_details[i].num_cycles
    /\ d.case.case_state # None
    /\ d.case.case_last_time # None

\* C1: whether or not a persistence step failed, the database holds all of the
\* run's Report, its Details and the case update, or none of them, at every
\* moment and in particular once execute_single_case has finished.
C1_Atomic == db = EmptyDb \/ FullySaved(db)

\* C1 witness: a finished run whose transaction failed after the Report and at
\* least one Detail were written, and nothing of it is stored.
C1_Witness ==
    /\ pc = "returned"
    /\ tx.rows.reports # {}
    /\ Len(tx.rows.details) >= 1
    /\ Len(tx.rows.details) < Len(pending_details)
    /\ db = EmptyDb

\* C2: the returned summary says saved_to_database exactly when the Report,
\* the Details and the case update were committed; after a failed write it is
\* false.
C2_SavedFlagTruthful ==
    pc = "returned" => (result_data.saved_to_database <=> FullySaved(db))

\* a caller holds the result of a LOOP that stopped on a failed child (STOP)
HoldsStop(f) ==
    \/ \E j \in 1..Len(f.children) : f.children[j].error = "stop"
    \/ \E j \in 1..Len(f.child_results) : f.child_results[j].error = "stop"

\* C3: once a LOOP with loop_on_error = STOP has stopped on a failed child,
\* the case is aborted: its caller starts no further step and the run does not
\* go on to an ordinary end.
C3_StopAbortsCase ==
    \A i \in 1..Len(stack) :
        HoldsStop(stack[i]) => (i = Len(stack) /\ stack[i].pc \notin {"done"})

\* C4: a failed step, a step whose executor cannot be created included, never
\* keeps its later siblings from running: whoever has left its list of steps
\* has gone through all of it.
C4_SiblingsStillRun ==
    \A i \in 1..Len(stack) :
        stack[i].pc \in {"finish", "post", "iter", "done", "raised"}
            => stack[i].idx > Len(stack[i].todo)

\* results of child executions a loop step has gathered so far: those of the
\* earlier iterations and, while an iteration runs, those of the current one
ChildExecutions(f) ==
    IF f.pc = "children" THEN Len(f.children) + Len(f.child_results) ELSE Len(f.children)

C6_DetailTupleUnique ==
    \A i, j \in 1..Len(pending_details) :
        i # j => \/ pending_details[i].step_code # pending_details[j].step_code
                 \/ pending_details[i].num_cycles # pending_details[j].num_cycles

\* the results a caller has taken in its current pass over its steps
RunOrder(f) == IF f.step.step_type \in {"LOOP", "IF"} THEN f.child_results ELSE f.children

\* C7: at every level a step starts only when every sibling with a smaller
\* step_no is behind it, and the results come in ascending step_no.
C7_AscendingStepNo ==
    \A i \in 1..Len(stack) :
        LET f == stack[i]
            r == RunOrder(f)
        IN  /\ \A j, k \in 1..Len(r) : j < k => r[j].step_no <= r[k].step_no
            /\ (f.pc = "children" /\ f.idx <= Len(f.todo)) =>
                  \A j \in 1..Len(f.todo) :
                      f.todo[j].step_no < f.todo[f.idx].step_no => j < f.idx
            /\ i < Len(stack) =>
                  /\ stack[i + 1].step = f.todo[f.idx]
                  /\ \A j \in 1..Len(r) : r[j].step_no <= stack[i + 1].step.step_no

\* C7 witness: an IF step whose children were stored as d(3), c(1) with the
\* quote step p1(2) has run them as c, p1, d.
C7_Witness ==
    \E i \in 1..Len(stack) :
        /\ stack[i].step.step_code = "I"
        /\ Len(stack[i].child_results) = 3
        /\ stack[i].child_results[1].step_code = "c"
        /\ stack[i].child_results[2].step_code = "p1"
        /\ stack[i].child_results[3].step_code = "d"

(***************************************************************************)
(* Properties of the variable pools.                                       *)
(***************************************************************************)
WritesTo(k) == {i \in 1..Len(writes) : writes[i].key = k}

\* the value of the latest write to k
LastWrite(k) == writes[CHOOSE i \in WritesTo(k) : \A j \in WritesTo(k) : j <= i].value

EntriesFor(pool, k) == {i \in 1..Len(pool) : pool[i].key = k}

\* C8 as stated: after two writes to a key, get_variable gives the later
\* value, whatever the values and whatever step is executing.
C8_ReadsLastWrite ==
    (read # NoRead /\ read.name # "" /\ Cardinality(WritesTo(read.name)) >= 2)
        => read.value = LastWrite(read.name)

\* C8 amended: after two writes to a key the session pool holds one entry for
\* it, with the later value; get_variable gives the executing step's own
\* defined value when it has one, otherwise the later session value, and
\* reports the variable as undefined when that value is None.
C8_SessionKeepsLastWrite ==
    (read # NoRead /\ read.name # "" /\ Cardinality(WritesTo(read.name)) >= 2)
        => LET k == read.name
               dv == get_value_from_list(defined_variables, k)
           IN  /\ Cardinality(EntriesFor(session_variables, k)) = 1
               /\ get_value_from_list(session_variables, k) = LastWrite(k)
               /\ read.value = IF dv # None THEN dv
                               ELSE IF LastWrite(k) # None THEN LastWrite(k)
                               ELSE KeyError

\* C8 witness: k was written as v1, then as v2, no defined variable is in the
\* way, and get_variable(k) gave v2.
C8_Witness ==
    /\ read = [name |-> "k", value |-> "v2"]
    /\ defined_variables = <<>>
    /\ \E i, j \in WritesTo("k") : i < j /\ writes[i].value = "v1" /\ writes[j].value = "v2"
    /\ LastWrite("k") = "v2"

(***************************************************************************)
(* Properties of the worker process.                                       *)
(***************************************************************************)
\* C9: every coroutine that uses the database runs on the loop the connection
\* pool was initialised on, in every order of scan tasks and other tasks.
C9_DbAccessOnPoolLoop ==
    \A a \in worker.db_access : a.on = a.pool

\* C10: between two fork resets the process starts at most one pool loop and
\* loop thread, and every submission goes to that one loop.
C10_OneLoopPerProcess ==
    /\ Cardinality(worker.loops) <= 1
    /\ Cardinality(worker.submitted_on) <= 1

\* the positions in the current task's handler log at which op happened
At(op) == {i \in 1..Len(worker.events) : worker.events[i].op = op}

RecordsOf(celery_id) ==
    {i \in 1..Len(worker.records) : worker.records[i].celery_id = celery_id}

\* C12: when a task that is not the scan task has completed, the record table
\* holds exactly one row for its celery_id, and that row has status SUCCESS or
\* FAILURE with its end time and duration set.
C12_OneFinishedRecord ==
    (task.phase = "idle" /\ task.kind = OtherTask) =>
        /\ Cardinality(RecordsOf(task.id)) = 1
        /\ \A i \in RecordsOf(task.id) :
            /\ worker.records[i].celery_status \in {"SUCCESS", "FAILURE"}
            /\ worker.records[i].celery_end_time
            /\ worker.records[i].celery_duration

\* C13: after the worker_process_init hook has run in a child, the pool
\* singleton, the cached pool and the Tortoise flag are cleared, and what the
\* child's tasks then do runs on event loops built in the child, against a
\* connection pool bound in the child.
C13_ChildRebuilds ==
    worker.forks > 0 =>
        /\ worker.loops = {} =>
            /\ ~worker.singleton
            /\ ~worker.async_event_loop_pool
            /\ ~worker.tortoise_orm_initialized
        /\ \A l \in worker.submitted_on : l >= worker.fork_mark /\ l \in worker.loops
        /\ \A a \in worker.db_access : a.on >= worker.fork_mark /\ a.pool >= worker.fork_mark
        /\ (worker.tasks > 0 /\ At("init") # {} /\ worker.db_access = {}) =>
            \A i \in At("init") : worker.events[i].arg = "first"

C13_Witness ==
    /\ worker.forks > 0
    /\ worker.fork_mark > 1
    /\ worker.loops # {}
    /\ worker.db_access # {}
    /\ worker.tortoise_orm_initialized

\* C14: run(coroutine) returns what the coroutine returned, and raises what
\* the coroutine raised, once the coroutine has completed on the pool's loop.
C14_RunReturnsResult ==
    (task.phase = "called" /\ task.is_async) =>
        /\ task.result = Raise => task.outcome = "raised"
        /\ task.result # Raise => task.outcome = "returned" /\ task.retval = task.result

\* the Detail payloads of step_code gathered so far, in the order produced
DetailsOf(step_code) == SelectSeq(pending_details, LAMBDA d : d.step_code = step_code)

\* a root-level loop step of the given mode whose _execute has ended
LoopEnded(mode) ==
    /\ pc = "engine"
    /\ Len(stack) = 2
    /\ Top.pc = "finish"
    /\ Top.step.step_type = "LOOP"
    /\ Top.step.loop_mode = mode
    /\ Top.step.loop_on_error \in {"CONTINUE", "BREAK", "STOP"}

\* every child of the loop is of a known type and none of its executions failed
NoChildFailed(f) ==
    /\ \A i \in 1..Len(f.step.children) : f.step.children[i].step_type \in ValidStepTypes
    /\ \A i \in 1..Len(f.children) : f.children[i].success

\* C15: a COUNT loop with loop_maximums = n, 1 <= n <= 100, whose children do
\* not fail has executed each child exactly n times, with the iteration
\* indices 1..n, and ends with success = true.
C15_CountLoopRunsNTimes ==
    (/\ LoopEnded("COUNT")
     /\ Top.step.loop_maximums \in 1..guard_limit
     /\ ~SleepFails(Top.step.loop_interval)
     /\ NoChildFailed(Top)) =>
        LET n == Top.step.loop_maximums
            kids == ChildrenOf(Top.step)
        IN  /\ Top.success
            /\ Len(Top.children) = n * Len(kids)
            /\ \A k \in 1..Len(kids) :
                LET ds == DetailsOf(kids[k].step_code)
                IN  /\ Len(ds) = n
                    /\ \A j \in 1..n : ds[j].num_cycles = j

\* child k of the loop is reached in an iteration: create_executor accepts it
\* and every child before it
Reached(kids, k) == \A j \in 1..k : kids[j].step_type \in ValidStepTypes

ChildFailed(f) ==
    \/ \E i \in 1..Len(f.children) : ~f.children[i].success
    \/ /\ f.step.loop_mode = "COUNT"
       /\ f.iteration >= 1
       /\ \E i \in 1..Len(f.step.children) : f.step.children[i].step_type \notin ValidStepTypes

\* C17: with loop_on_error = BREAK a COUNT or CONDITION loop ends at the
\* iteration in which a child failed: no later iteration is started, the loop
\* step ends without an error of its own, and the case goes on with the steps
\* after the loop.
C17_BreakEndsLoop ==
    /\ (/\ LoopEnded("COUNT") \/ LoopEnded("CONDITION")
        /\ Top.step.loop_on_error = "BREAK"
        /\ ChildFailed(Top)) =>
            LET kids == ChildrenOf(Top.step)
            IN  /\ Top.error = ""
                /\ ~Top.success
                /\ (\E k \in 1..Len(kids) : ~Reached(kids, k)) => Top.iteration = 1
                /\ \A k \in 1..Len(kids) :
                    LET ds == DetailsOf(kids[k].step_code)
                    IN  /\ Len(ds) <= Top.iteration
                        /\ \A j \in 1..Len(ds) :
                            /\ ds[j].num_cycles = j
                            /\ ~ds[j].step_state => j = Top.iteration
    /\ \A i \in 1..Len(stack[1].children) :
        LET r == stack[1].children[i]
        IN  (/\ stack[1].todo[i].step_type = "LOOP"
             /\ stack[1].todo[i].loop_on_error = "BREAK"
             /\ ~r.success) =>
                /\ pc # "raised"
                /\ stack[1].pc = "children" => stack[1].idx > i

C17_Witness ==
    /\ pc = "returned"
    /\ Len(stack[1].children) = 2
    /\ stack[1].todo[1].step_type = "LOOP"
    /\ stack[1].todo[1].loop_mode = "CONDITION"
    /\ stack[1].todo[1].loop_on_error = "BREAK"
    /\ ~stack[1].children[1].success
    /\ stack[1].children[1].error = ""
    /\ Len(DetailsOf("c")) = 3
    /\ ~DetailsOf("c")[3].step_state
    /\ Len(DetailsOf("d")) = 3
    /\ stack[1].children[2].step_code = "b"
    /\ stack[1].children[2].success

\* the value session_variables holds for name, None when it holds none
Bound(name) == get_value_from_list(session_variables, name)

\* C18: an ITERABLE or DICT loop over n >= 1 elements has bound, for every
\* position idx in 1..n, <index name>_<idx> to idx and <value name>_<idx> to
\* the element in session_variables, and has run its children once per element.
C18_LoopVariablesBound ==
    (/\ LoopEnded("ITERABLE") \/ LoopEnded("DICT")
     /\ Top.step.loop_iterable.kind \in {"list", "dict"}
     /\ Top.step.loop_mode = "DICT" => Top.step.loop_iterable.kind = "dict") =>
        LET st == Top.step
            items == Elements(st)
            kids == ChildrenOf(st)
        IN  /\ \A idx \in 1..Len(items) :
                /\ Bound(VarName(index_var_name(st), idx)) = ToString(idx)
                /\ Bound(VarName(value_var_name(st), idx)) = items[idx]
            /\ \A k \in 1..Len(kids) : Len(DetailsOf(kids[k].step_code)) = Len(items)

\* C19: an IF step whose comparison is false ends with success = true and the
\* message that the condition was not met; none of its children is executed,
\* so the step has no child result and no child has a Detail.
C19_IfFalseSkipsChildren ==
    \A i \in 1..Len(stack) :
        LET f == stack[i]
            kids == ChildrenOf(f.step)
        IN  /\ (f.step.step_type = "IF" /\ f.step.conditions = "F") =>
                /\ f.pc \in {"body", "finish"}
                /\ f.pc = "finish" => f.message = "condition_not_met"
                /\ \A k \in 1..Len(kids) : DetailsOf(kids[k].step_code) = <<>>
            /\ (f.step.step_type = "IF" /\ f.message = "condition_not_met") =>
                /\ f.pc = "finish"
                /\ f.success
                /\ f.error = ""
                /\ f.children = <<>>
                /\ f.child_results = <<>>

C19_Witness ==
    /\ pc = "engine"
    /\ Top.step.step_type = "IF"
    /\ Top.step.conditions = "F"
    /\ Top.pc = "finish"
    /\ Top.message = "condition_not_met"
    /\ Top.success
    /\ Top.num_cycles = 2
    /\ Len(DetailsOf("I")) = 1
    /\ DetailsOf("I")[1].step_state
    /\ DetailsOf("c") = <<>>

\* the step has a configured assertion that does not hold for the response
SomeAssertionFails(step) ==
    \E i \in 1..Len(step.assert_validators) :
        LET v == step.assert_validators[i]
        IN  ~compare_assertion(v.actual, v.operation, v.except_value)

\* C20: an HTTP step whose request succeeded and for which at least one
\* configured assertion does not hold ends with success = false, whatever the
\* operator and the expected value, 0, false and "" included.
C20_FailedAssertionFailsStep ==
    \A i \in 1..Len(stack) :
        LET f == stack[i]
        IN  (/\ f.step.step_type = "HTTP"
             /\ f.step.outcome = "ok"
             /\ f.pc = "finish"
             /\ SomeAssertionFails(f.step)) => ~f.success

\* C21: a failing extract_variables entry is recorded on that entry and does
\* not fail the step: every entry has a result, and an HTTP step whose request
\* succeeded and whose assertions pass ends with success = true.
C21_ExtractFailureKept ==
    \A i \in 1..Len(stack) :
        LET f == stack[i]
            ex == extract_variables(f.step.extract_variables)
        IN  (/\ f.step.step_type = "HTTP"
             /\ f.step.outcome = "ok"
             /\ f.pc = "finish") =>
                /\ ~ex.raised
                /\ Len(ex.results) = Len(f.step.extract_variables)
                /\ f.success = AssertionsPass(f.step)

\* step codes with a saved detail, and those with a failed one: every
\* execution of a step appends its detail, whatever becomes of its result
ExecutedCodes == {pending_details[i].step_code : i \in 1..Len(pending_details)}

FailedCodes ==
    {pending_details[i].step_code :
        i \in {j \in 1..Len(pending_details) : ~pending_details[j].step_state}}

\* step codes present in the result tree of the run
CountedCodes ==
    LET all == collect_all_results(stack[1].children)
    IN  {all[i].step_code : i \in 1..Len(all)}

C23_IntervalDue ==
    (/\ due.asked
     /\ due.expired # "unasked"
     /\ get_scheduler_value(due.task.task_scheduler) = "interval"
     /\ due.task.task_interval_expr > 0) =>
        (due.expired = "due" <=>
            \/ due.task.last_execute_time = NoTime
            \/ due.now - due.task.last_execute_time >= due.task.task_interval_expr)

\* C24: a datetime task is due exactly when now >= target and it has no
\* last_execute_time at or after target; a task that never ran is due as soon
\* as now >= target.
C24_DatetimeDue ==
    (/\ due.asked
     /\ due.expired # "unasked"
     /\ get_scheduler_value(due.task.task_scheduler) = "datetime"
     /\ strptime(due.task.task_datetime_expr) # NoTime) =>
        (due.expired = "due" <=>
            /\ due.now >= strptime(due.task.task_datetime_expr)
            /\ ~(/\ due.task.last_execute_time # NoTime
                 /\ due.task.last_execute_time >= strptime(due.task.task_datetime_expr)))

C26_VersionCountsUpdates ==
    /\ [](\A id \in CaseIds : cases[id].case_version = 1 + updates[id])
    /\ [][\A id \in CaseIds : cases'[id].case_version >= cases[id].case_version]_vars

\* C27: after any sequence of create_step and update_step, every active step
\* that is the parent of another active step has type LOOP or IF.
C27_ParentsAreContainers ==
    \A id \in StepIds :
        (/\ ActiveStep(id)
         /\ ActiveStep(step_rows[id].parent_step_id)) =>
            step_rows[step_rows[id].parent_step_id].step_type \in {"LOOP", "IF"}

\* C28: under any interleaving of create_step, update_step and delete_case, no
\* active step belongs to or quotes a soft-deleted case.
C28_NoStepOfDeletedCase ==
    \A id \in StepIds :
        ActiveStep(id) =>
            /\ cases[step_rows[id].case_id].state # 1
            /\ step_rows[id].quote_case_id # 0 => cases[step_rows[id].quote_case_id].state # 1

\* C29: batch_execute_cases runs the cases one after another in the given
\* order, a raising case does not stop the later ones, and the summary has
\* total_cases = success_cases + failed_cases = the number of results.
C29_BatchCountsEveryCase ==
    batch.called =>
        /\ Len(batch.results) = batch.next - 1
        /\ batch.success_cases + batch.failed_cases = Len(batch.results)
        /\ \A i \in 1..Len(batch.results) : batch.results[i].case_id = batch.case_ids[i]
        /\ batch.success_cases = Cardinality({i \in 1..Len(batch.results) : batch.results[i].success})
        /\ batch.returned =>
            /\ Len(batch.results) = Len(batch.case_ids)
            /\ batch.total_cases = Len(batch.results)
            /\ batch.total_cases = batch.success_cases + batch.failed_cases

\* a returned batch in which a case raised and a later case still ran and passed
C29_Witness ==
    /\ batch.called
    /\ batch.returned
    /\ \E i, j \in 1..Len(batch.results) :
        /\ i < j
        /\ batch.results[i].error = "raised"
        /\ batch.results[j].success

\* C30: the report_code in the summary returned by execute_single_case is the
\* report_code of the Report row that was stored and of all Details of the run.
C30_ReturnedCodeIsStored ==
    (pc = "returned" /\ FullySaved(db)) =>
        /\ \A r \in db.reports : r.report_code = result_data.report_code
        /\ \A i \in 1..Len(db.details) : db.details[i].report_code = result_data.report_code

\* C31: every step execution that produced a Detail is present in the returned
\* result tree and counted in the statistics, for every loop error strategy; a
\* failed step execution makes failed_steps >= 1 and the case_state false.
C31_EveryDetailCounted ==
    pc \notin {"engine", "idle"} =>
        /\ ExecutedCodes \subseteq CountedCodes
        /\ statistics.total_steps = Cardinality(ExecutedCodes)
        /\ FailedCodes # {} => statistics.failed_steps >= 1
        /\ (FailedCodes # {} /\ pc = "returned") => ~result_data.success

\* C32: loading a case's step tree terminates and yields a finite tree for
\* every stored configuration of cases and steps, QUOTE cycles included: a
\* get_by_case_id call never runs into the limit on the depth of its calls.
C32_TreeLoadTerminates == loader.pc # "RecursionError"

\* C33: init_tortoise_orm coroutines that run() submitted to the pool loop
\* from different caller threads all complete: acquiring the init lock never
\* blocks the loop thread while the coroutine holding the lock is suspended
\* at an await.
C33_InitLockNeverBlocksLoop ==
    ~(/\ orm_init.loop_blocked
      /\ orm_init.lock # NoHolder
      /\ orm_init.co[orm_init.lock] \in {"await_select", "await_init"})

\* C34: when execute() of a step returns, context.current_step_code is again
\* the value it had immediately before that execute() call (called_with), so
\* after a child step finishes its parent is once more the current log owner.
C34_CurrentStepCodeRestored ==
    [][StepFinish => current_step_code' = Top.called_with]_vars

\* the step codes of the payloads in pending_details
PayloadCodes == {pending_details[k].step_code : k \in 1..Len(pending_details)}

\* the running execute() calls that have run at least one child
RunningParents ==
    {i \in 2..Len(stack) : stack[i].children # <<>> \/ stack[i].child_results # <<>>}

\* pending_details only grows, one payload at a time
AppendOnly ==
    \/ pending_details' = pending_details
    \/ \E d \in {DetailOf(stack[i]) : i \in 1..Len(stack)} :
            pending_details' = Append(pending_details, d)

DeliveredTo(parent) ==
    IF parent.step.step_type \in {"LOOP", "IF"}
    THEN parent.child_results[Len(parent.child_results)]
    ELSE parent.children[Len(parent.children)]

\* C40: a failure while building or writing a step's Detail never changes that
\* step's result: execute() does not raise, it returns to its caller, and the
\* success flag, the error text and the child results it returns are the ones
\* the step had when the save was attempted.
C40_SaveFailureKeepsResult ==
    [][save_faults' < save_faults =>
        /\ Len(stack') = Len(stack) - 1
        /\ pc' = pc
        /\ DeliveredTo(stack'[Len(stack')]).success = Top.success
        /\ DeliveredTo(stack'[Len(stack')]).error = Top.error
        /\ DeliveredTo(stack'[Len(stack')]).children = Top.children]_vars

\* a root step returned as passed although its Detail could not be built
C40_Witness ==
    /\ save_faults < MaxSaveFaults
    /\ \E j \in 1..Len(stack[1].children) :
        /\ stack[1].children[j].success
        /\ stack[1].children[j].step_code \notin PayloadCodes

\* C36: in every loop mode the loop_interval wait happens only between two
\* consecutive iterations: when a loop with a loop_interval ends, however it
\* ends, it has waited once less than it has run iterations, so no wait
\* follows the last executed iteration.
C36_WaitsOnlyBetweenIterations ==
    [][(/\ pc = "engine"
        /\ Len(stack) > 1
        /\ Len(stack') = Len(stack)
        /\ Top.step.step_type = "LOOP"
        /\ Top.step.loop_interval > 0
        /\ ~SleepFails(Top.step.loop_interval)
        /\ Top.pc # "finish"
        /\ stack'[Len(stack')].pc = "finish"
        /\ Top.iteration >= 1)
       => stack'[Len(stack')].waits = Top.iteration - 1]_vars

\* how many of the results are failed assertions
RECURSIVE FailedResults(_)
FailedResults(results) ==
    IF results = <<>> THEN 0
    ELSE (IF Head(results).success THEN 0 ELSE 1) + FailedResults(Tail(results))

\* C37: when k >= 1 of an HTTP step's assertions fail, the step's error reports
\* the count k, and assert_validators holds one result record for every
\* configured assertion.
C37_ErrorReportsFailedCount ==
    (/\ pc = "engine"
     /\ Len(stack) > 1
     /\ Top.pc = "finish"
     /\ "assert_failed_number" \in DOMAIN Top
     /\ FailedResults(Top.assert_validators) >= 1)
    => /\ Top.assert_failed_number = FailedResults(Top.assert_validators)
       /\ Len(Top.assert_validators) = Len(Top.step.assert_validators)

\* the lines of the log of a root step that came from its descendants
RECURSIVE DescendantLinesOnce(_, _, _)
DescendantLinesOnce(lines, codes, k) ==
    IF k > Len(SortedStepCodes) THEN <<>>
    ELSE (IF SortedStepCodes[k] \in codes THEN lines[SortedStepCodes[k]] ELSE <<>>)
            \o DescendantLinesOnce(lines, codes, k + 1)

\* C38: after root-log aggregation, the root step's log is the root's own
\* lines followed by its descendants' lines in ascending step_code order, each
\* descendant log line exactly once even across loop iterations.
C38_RootLogHasEachLineOnce ==
    [][(StepFinish /\ Len(stack) = 2) =>
        LET codes == {ChildStepCodes(Top.children)[i] :
                        i \in 1..Len(ChildStepCodes(Top.children))}
        IN logs'[Top.step.step_code] =
                logs[Top.step.step_code] \o DescendantLinesOnce(logs, codes, 1)]_vars

\* the merge of a failed or empty extraction for name n: extract_value None
MergesNoneFor(n) ==
    /\ session_variables' = update_variables(session_variables, <<Item(n, None)>>)
    /\ writes' = Append(writes, Item(n, None))

\* C39: a failed or empty extraction for name n (extract_value None) never
\* makes a session variable n that was readable before the step unreadable
\* afterwards: get_variable(n) still returns a value instead of raising
\* key-not-found.
C39_FailedExtractionKeepsVariable ==
    [][\A n \in Keys \ {""} :
        (MergesNoneFor(n) /\ get_variable(n) # KeyError) => get_variable(n)' # KeyError]_vars

====
